---- MODULE Spec2Model ----
(***************************************************************************)
(* Aftershock calculator: the forecasting functions of                     *)
(* src/lib/calculations.ts and the calculator page of src/app/page.tsx.    *)
(*                                                                         *)
(* JavaScript numbers are modelled as decimal floating-point values: a     *)
(* sign, an exponent and a mantissa of Limbs digits in base Base, so that  *)
(* a value keeps 13 to 16 significant decimal digits whatever its          *)
(* magnitude (an IEEE double keeps 15 to 17).  Every arithmetic operation  *)
(* rounds its exact result to that precision, overflows to an infinity     *)
(* above the largest double and yields NaN where IEEE arithmetic does.     *)
(***************************************************************************)
EXTENDS Integers, Sequences, FiniteSets, TLC

VARIABLES
    \* ---- state of the calculator page (page.tsx, QuakeInput.tsx) ----
    quakeId, magnitude, quakeTime, startTime, isLoading, loadedQuakeInfo,
    isDemoMode, modelType, customParams, durations, magnitudeRanges,
    results, validationErrors,
    \* QuakeInput's error, the loads whose fetch has not settled, and the
    \* number of user events so far
    error, pending, events,
    \* ---- the objects of the preset registry (types/index.ts) as they are
    \* now, and the registry object customParams refers to ("" when it is an
    \* object of its own) ----
    presets, customAlias,
    \* ---- one call of a pure function of calculations.ts ----
    pc, args, ret

pageVars == <<quakeId, magnitude, quakeTime, startTime, isLoading,
              loadedQuakeInfo, isDemoMode, modelType, customParams,
              durations, magnitudeRanges, results, validationErrors,
              error, pending, events, presets, customAlias>>
callVars == <<pc, args, ret>>
vars == <<pageVars, callVars>>

(***************************************************************************)
(* Numbers.                                                                *)
(***************************************************************************)
Base == 10000
Limbs == 4

\* Counts (the values of Math.round and qpois) are integers; +Infinity,
\* -Infinity and NaN are three integers no count reaches.
Infinity == 2147483647
MinusInfinity == 0 - Infinity
NotANumber == MinusInfinity - 1

\* The exponent that marks an infinity or NaN.
SpecialEx == 100000

Max(a, b) == IF a >= b THEN a ELSE b
Min(a, b) == IF a <= b THEN a ELSE b

Zero == [sg |-> 0, ex |-> 0, mn |-> <<0, 0, 0, 0>>]
NaN == [sg |-> 2, ex |-> SpecialEx, mn |-> <<0, 0, 0, 0>>]
Inf(sg) == [sg |-> sg, ex |-> SpecialEx, mn |-> <<1, 0, 0, 0>>]

\* Number.MAX_VALUE and Number.MIN_VALUE, to the precision kept.
MAX_VALUE == [sg |-> 1, ex |-> 77, mn |-> <<1, 7976, 9313, 4862>>]
MIN_VALUE == [sg |-> 1, ex |-> -81, mn |-> <<4, 9406, 5645, 8412>>]

Special(x) == x.ex = SpecialEx
IsNaN(x) == x.sg = 2
IsFinite(x) == x.ex # SpecialEx

\* Limb i of the sequence s, 0 beyond its end.
At(s, i) == IF i >= 1 /\ i <= Len(s) THEN s[i] ELSE 0

RECURSIVE LeadingZeros(_, _)
LeadingZeros(s, i) ==
    IF i > Len(s) THEN Len(s)
    ELSE IF s[i] # 0 THEN i - 1
    ELSE LeadingZeros(s, i + 1)

\* The mantissa m plus one unit in its last limb, as 5 limbs.
AddUnit(m) ==
    LET t4 == m[4] + 1
        t3 == m[3] + t4 \div Base
        t2 == m[2] + t3 \div Base
        t1 == m[1] + t2 \div Base
    IN  <<t1 \div Base, t1 % Base, t2 % Base, t3 % Base, t4 % Base>>

\* The number sg * SUM s[i] * Base^(ex + 1 - i), rounded to the nearest
\* number of Limbs limbs (the first limb dropped decides).
RoundUp(sg, ex, r) ==
    IF r[1] = 0
    THEN [sg |-> sg, ex |-> ex, mn |-> Tail(r)]
    ELSE [sg |-> sg, ex |-> ex + 1, mn |-> <<r[1], r[2], r[3], r[4]>>]

RoundFrom(sg, ex, s, z) ==
    IF sg = 0 \/ z = Len(s) THEN Zero
    ELSE IF 2 * At(s, z + Limbs + 1) < Base
    THEN [sg |-> sg, ex |-> ex - z,
          mn |-> <<s[z + 1], At(s, z + 2), At(s, z + 3), At(s, z + 4)>>]
    ELSE RoundUp(sg, ex - z,
                 AddUnit(<<s[z + 1], At(s, z + 2), At(s, z + 3), At(s, z + 4)>>))

Round(sg, ex, s) == RoundFrom(sg, ex, s, LeadingZeros(s, 1))

\* Compare two limb sequences of equal length: -1, 0 or 1.
RECURSIVE CmpLimbs(_, _, _)
CmpLimbs(a, b, i) ==
    IF i > Len(a) THEN 0
    ELSE IF a[i] < b[i] THEN -1
    ELSE IF a[i] > b[i] THEN 1
    ELSE CmpLimbs(a, b, i + 1)

\* The rounded number r, or an infinity above MAX_VALUE, or zero below
\* MIN_VALUE.
InRange(r) ==
    IF r.ex >= MAX_VALUE.ex
       /\ (r.ex > MAX_VALUE.ex \/ CmpLimbs(r.mn, MAX_VALUE.mn, 1) > 0)
    THEN Inf(r.sg)
    ELSE IF r.sg # 0 /\ r.ex <= MIN_VALUE.ex
            /\ (r.ex < MIN_VALUE.ex \/ CmpLimbs(r.mn, MIN_VALUE.mn, 1) < 0)
    THEN Zero
    ELSE r

Normalize(sg, ex, s) == InRange(Round(sg, ex, s))

\* a - b of two limb sequences of equal length, a >= b.
RECURSIVE SubLimbs(_, _, _, _, _)
SubLimbs(a, b, i, borrow, acc) ==
    IF i < 1 THEN acc
    ELSE LET t == a[i] - b[i] - borrow
         IN  IF t < 0 THEN SubLimbs(a, b, i - 1, 1, <<t + Base>> \o acc)
             ELSE SubLimbs(a, b, i - 1, 0, <<t>> \o acc)

\* a * k for a limb sequence a and 0 <= k < Base, as Len(a) + 1 limbs.
RECURSIVE MulSmall(_, _, _, _, _)
MulSmall(a, k, i, carry, acc) ==
    IF i < 1 THEN <<carry>> \o acc
    ELSE LET t == a[i] * k + carry
         IN  MulSmall(a, k, i - 1, t \div Base, <<t % Base>> \o acc)

FNeg(x) == IF IsNaN(x) THEN x ELSE [x EXCEPT !.sg = -x.sg]
FAbs(x) == IF IsNaN(x) \/ x.sg = 0 THEN x ELSE [x EXCEPT !.sg = 1]

\* -1, 0, 1 as |x| is below, equal to or above |y|.
CmpMag(x, y) ==
    IF x.sg = 0 THEN (IF y.sg = 0 THEN 0 ELSE -1)
    ELSE IF y.sg = 0 THEN 1
    ELSE IF x.ex < y.ex THEN -1
    ELSE IF x.ex > y.ex THEN 1
    ELSE CmpLimbs(x.mn, y.mn, 1)

FCmp(x, y) ==
    IF x.sg # y.sg THEN (IF x.sg < y.sg THEN -1 ELSE 1)
    ELSE x.sg * CmpMag(x, y)

\* <, <=, >, >=: false when an operand is NaN.
FLt(x, y) == ~IsNaN(x) /\ ~IsNaN(y) /\ FCmp(x, y) < 0
FLe(x, y) == ~IsNaN(x) /\ ~IsNaN(y) /\ FCmp(x, y) <= 0
FGt(x, y) == ~IsNaN(x) /\ ~IsNaN(y) /\ FCmp(x, y) > 0
FGe(x, y) == ~IsNaN(x) /\ ~IsNaN(y) /\ FCmp(x, y) >= 0

\* |x| + |y|, for x.ex >= y.ex: y's mantissa is shifted right by d limbs and
\* the sum kept to six limbs below the carry.
AddMag(sg, x, y) ==
    LET d == x.ex - y.ex
        a == x.mn
        b == y.mn
        t6 == At(b, 6 - d)
        t5 == At(b, 5 - d)
        t4 == a[4] + At(b, 4 - d)
        t3 == a[3] + At(b, 3 - d) + t4 \div Base
        t2 == a[2] + At(b, 2 - d) + t3 \div Base
        t1 == a[1] + At(b, 1 - d) + t2 \div Base
    IN  Normalize(sg, x.ex + 1,
                  <<t1 \div Base, t1 % Base, t2 % Base, t3 % Base, t4 % Base, t5, t6>>)

\* |x| - |y|, for |x| > |y|.
SubMag(sg, x, y) ==
    LET d == x.ex - y.ex
        a == x.mn
        b == y.mn
        t6 == 0 - At(b, 6 - d)
        t5 == 0 - At(b, 5 - d) - (IF t6 < 0 THEN 1 ELSE 0)
        t4 == a[4] - At(b, 4 - d) - (IF t5 < 0 THEN 1 ELSE 0)
        t3 == a[3] - At(b, 3 - d) - (IF t4 < 0 THEN 1 ELSE 0)
        t2 == a[2] - At(b, 2 - d) - (IF t3 < 0 THEN 1 ELSE 0)
        t1 == a[1] - At(b, 1 - d) - (IF t2 < 0 THEN 1 ELSE 0)
        fix(t) == IF t < 0 THEN t + Base ELSE t
    IN  Normalize(sg, x.ex, <<t1, fix(t2), fix(t3), fix(t4), fix(t5), fix(t6)>>)

\* x + y where one of them is an infinity or NaN.
AddSpecial(x, y) ==
    IF IsNaN(x) \/ IsNaN(y) THEN NaN
    ELSE IF Special(x) /\ Special(y) THEN (IF x.sg = y.sg THEN x ELSE NaN)
    ELSE IF Special(x) THEN x
    ELSE y

\* x + y for finite x, y, neither zero, |x| >= |y|.
AddOrdered(x, y) ==
    IF x.sg = y.sg THEN AddMag(x.sg, x, y)
    ELSE IF CmpMag(x, y) = 0 THEN Zero
    ELSE SubMag(x.sg, x, y)

FAdd(x, y) ==
    IF Special(x) \/ Special(y) THEN AddSpecial(x, y)
    ELSE IF x.sg = 0 THEN y
    ELSE IF y.sg = 0 THEN x
    ELSE AddOrdered(IF CmpMag(x, y) >= 0 THEN x ELSE y,
                    IF CmpMag(x, y) >= 0 THEN y ELSE x)

FSub(x, y) == FAdd(x, FNeg(y))

\* x * y where one of them is an infinity or NaN.
MulSpecial(x, y) ==
    IF IsNaN(x) \/ IsNaN(y) \/ x.sg = 0 \/ y.sg = 0 THEN NaN
    ELSE Inf(x.sg * y.sg)

FMul(x, y) ==
    IF Special(x) \/ Special(y) THEN MulSpecial(x, y)
    ELSE IF x.sg = 0 \/ y.sg = 0 THEN Zero
    ELSE LET a == x.mn
             b == y.mn
             c8 == a[4] * b[4]
             c7 == a[3] * b[4] + a[4] * b[3] + c8 \div Base
             c6 == a[2] * b[4] + a[3] * b[3] + a[4] * b[2] + c7 \div Base
             c5 == a[1] * b[4] + a[2] * b[3] + a[3] * b[2] + a[4] * b[1]
                   + c6 \div Base
             c4 == a[1] * b[3] + a[2] * b[2] + a[3] * b[1] + c5 \div Base
             c3 == a[1] * b[2] + a[2] * b[1] + c4 \div Base
             c2 == a[1] * b[1] + c3 \div Base
         IN  Normalize(x.sg * y.sg, x.ex + y.ex + 1,
                       <<c2 \div Base, c2 % Base, c3 % Base, c4 % Base,
                         c5 % Base, c6 % Base>>)

\* Largest q in lo..hi with q * d <= r (d, r limb sequences, Len(r) = Len(d) + 1).
RECURSIVE QuotDigit(_, _, _, _)
QuotDigit(r, d, lo, hi) ==
    IF lo = hi THEN lo
    ELSE LET mid == (lo + hi + 1) \div 2
         IN  IF CmpLimbs(MulSmall(d, mid, Len(d), 0, <<>>), r, 1) <= 0
             THEN QuotDigit(r, d, mid, hi)
             ELSE QuotDigit(r, d, lo, mid - 1)

\* Long division of r (Len(d) + 1 limbs, r < d * Base) by d, whose leading
\* limb is at least Base \div 2, so that the quotient limb is at most two
\* below its estimate from the leading limbs: n quotient limbs.
RECURSIVE LongDiv(_, _, _, _)
LongDivStep(r, d, n, acc, q) ==
    LongDiv(Tail(SubLimbs(r, MulSmall(d, q, Len(d), 0, <<>>), Len(r), 0, <<>>))
            \o <<0>>, d, n - 1, Append(acc, q))

LongDiv(r, d, n, acc) ==
    IF n = 0 THEN acc
    ELSE LongDivStep(r, d, n, acc,
                     QuotDigit(r, d,
                               Max(0, Min(Base - 1, (r[1] * Base + r[2]) \div d[1]) - 2),
                               Min(Base - 1, (r[1] * Base + r[2]) \div d[1])))

\* Division of the mantissa a by the single limb d: six quotient limbs.
ShortDiv(a, d) ==
    LET r1 == a[1] % d
        n2 == r1 * Base + a[2]
        n3 == (n2 % d) * Base + a[3]
        n4 == (n3 % d) * Base + a[4]
        n5 == (n4 % d) * Base
        n6 == (n5 % d) * Base
    IN  <<a[1] \div d, n2 \div d, n3 \div d, n4 \div d, n5 \div d, n6 \div d>>

\* x / y where one of them is an infinity or NaN, or y is zero.
DivSpecial(x, y) ==
    IF IsNaN(x) \/ IsNaN(y) THEN NaN
    ELSE IF Special(x) THEN (IF Special(y) THEN NaN
                             ELSE Inf(IF y.sg < 0 THEN -x.sg ELSE x.sg))
    ELSE IF Special(y) THEN Zero
    ELSE IF x.sg = 0 THEN NaN
    ELSE Inf(x.sg)

FDiv(x, y) ==
    IF Special(x) \/ Special(y) \/ y.sg = 0 THEN DivSpecial(x, y)
    ELSE IF x.sg = 0 THEN Zero
    ELSE IF y.mn[2] = 0 /\ y.mn[3] = 0 /\ y.mn[4] = 0
    THEN Normalize(x.sg * y.sg, x.ex - y.ex, ShortDiv(x.mn, y.mn[1]))
    ELSE LET f == Base \div (y.mn[1] + 1)
             d == Tail(MulSmall(y.mn, f, Limbs, 0, <<>>))
             r == MulSmall(x.mn, f, Limbs, 0, <<>>)
         IN  Normalize(x.sg * y.sg, x.ex - y.ex, LongDiv(r, d, Limbs + 2, <<>>))

\* The integer n as a number (|n| < Base^3).
FromInt(n) ==
    LET a == IF n < 0 THEN -n ELSE n
    IN  Normalize(IF n < 0 THEN -1 ELSE IF n = 0 THEN 0 ELSE 1, 2,
                  <<a \div (Base * Base), (a \div Base) % Base, a % Base>>)

\* The decimal literal num / den.
Dec(num, den) == FDiv(FromInt(num), FromInt(den))

\* Math.floor as a count, for a finite |x| < Base^2.
FFloor(x) ==
    IF IsNaN(x) THEN NotANumber
    ELSE IF Special(x) THEN (IF x.sg > 0 THEN Infinity ELSE MinusInfinity)
    ELSE IF x.sg = 0 THEN 0
    ELSE LET whole == IF x.ex < 0 THEN 0
                      ELSE IF x.ex = 0 THEN x.mn[1]
                      ELSE x.mn[1] * Base + x.mn[2]
             exact == \A i \in 1..Limbs : (i > x.ex + 1) => x.mn[i] = 0
         IN  IF x.sg > 0 THEN whole
             ELSE IF exact THEN -whole ELSE -whole - 1

Half == Dec(1, 2)
One == FromInt(1)
Two == FromInt(2)

\* Math.round: the nearest integer, halves towards +infinity.
MathRound(x) == FFloor(FAdd(x, Half))

\* ln 10 and ln 2, to six limbs.
Ln10 == Normalize(1, 0, <<2, 3025, 8509, 2994, 456, 8401>>)
Ln2 == Normalize(1, -1, <<6931, 4718, 559, 9453, 941, 7232>>)

\* x * Base^k
Scale(x, k) == IF x.sg = 0 THEN x ELSE [x EXCEPT !.ex = x.ex + k]

\* 10^k for an integer k.
PowTen(k) ==
    LET r == k % 4
    IN  Scale(FromInt(IF r = 0 THEN 1 ELSE IF r = 1 THEN 10
                      ELSE IF r = 2 THEN 100 ELSE 1000), (k - r) \div 4)

\* SUM r^n / n! from term n on, where term = r^n / n!.
RECURSIVE ExpSeries(_, _, _, _)
ExpSeries(r, n, term, sum) ==
    IF term.sg = 0 \/ term.ex < sum.ex - Limbs - 1 \/ n > 60 THEN sum
    ELSE ExpSeries(r, n + 1, FDiv(FMul(term, r), FromInt(n + 1)), FAdd(sum, term))

\* 10^k * e^r with r = x - k ln 10.
ExpScaled(x, k) ==
    FMul(PowTen(k), ExpSeries(FSub(x, FMul(FromInt(k), Ln10)), 0, One, Zero))

\* Math.exp: e^x = 10^k * e^r with x = k ln 10 + r, |r| <= (ln 10) / 2.
MathExp(x) ==
    IF IsNaN(x) THEN NaN
    ELSE IF x.sg = 0 THEN One
    ELSE IF x.ex >= 1 THEN (IF x.sg > 0 THEN Inf(1) ELSE Zero)
    ELSE ExpScaled(x, MathRound(FDiv(x, Ln10)))

\* SUM u^(2k+1) / (2k+1) from k on, where pw = u^(2k+1).
RECURSIVE AtanhSeries(_, _, _, _)
AtanhSeries(u2, k, pw, sum) ==
    IF pw.sg = 0 \/ (sum.sg # 0 /\ pw.ex < sum.ex - Limbs - 1) \/ k > 60 THEN sum
    ELSE AtanhSeries(u2, k + 1, FMul(pw, u2),
                     FAdd(sum, FDiv(pw, FromInt(2 * k + 1))))

\* m / 10^j, with j the number of steps until the quotient is below 10.
RECURSIVE ReduceTen(_, _)
ReduceTen(m, j) ==
    IF FLt(m, FromInt(10)) THEN <<m, j>>
    ELSE ReduceTen(FDiv(m, FromInt(10)), j + 1)

\* m / 2^i, with i the number of steps until the quotient is at most 3/2.
RECURSIVE ReduceTwo(_, _)
ReduceTwo(m, i) ==
    IF FLe(m, Dec(3, 2)) THEN <<m, i>>
    ELSE ReduceTwo(FDiv(m, Two), i + 1)

\* atanh u
Atanh(u) == AtanhSeries(FMul(u, u), 0, u, Zero)

\* ln(m * 10^tens * 2^twos) for 1 <= m <= 3/2.
LogSum(tens, twos, m) ==
    FAdd(FAdd(FMul(FromInt(tens), Ln10), FMul(FromInt(twos), Ln2)),
         FMul(Two, Atanh(FDiv(FSub(m, One), FAdd(m, One)))))

LogReduced(ex, t, w) == LogSum(4 * ex + t[2], w[2], w[1])

LogFrom(ex, t) == LogReduced(ex, t, ReduceTwo(t[1], 0))

\* Math.log: ln x = 4 ex ln 10 + j ln 10 + i ln 2 + 2 atanh((m-1)/(m+1)).
MathLog(x) ==
    IF IsNaN(x) \/ x.sg < 0 THEN NaN
    ELSE IF x.sg = 0 THEN Inf(-1)
    ELSE IF Special(x) THEN x
    ELSE LogFrom(x.ex, ReduceTen([x EXCEPT !.ex = 0], 0))

\* The least q >= r with (q + 1)^2 > n, for n below Base.
ISqrt(n, r) == CHOOSE q \in r..100 : (q + 1) * (q + 1) > n /\ (q = r \/ q * q <= n)

RECURSIVE Newton(_, _, _)
Newton(y, s, n) ==
    IF n = 0 \/ s.sg = 0 THEN s
    ELSE Newton(y, FDiv(FAdd(s, FDiv(y, s)), Two), n - 1)

\* Math.sqrt, by Newton's iteration from the integer root of the leading
\* limb.
MathSqrt(x) ==
    IF IsNaN(x) \/ x.sg < 0 THEN NaN
    ELSE IF x.sg = 0 \/ Special(x) THEN x
    ELSE Scale(Newton([x EXCEPT !.ex = x.ex % 2],
                      FromInt(ISqrt(x.mn[1], 1) * (IF x.ex % 2 = 1 THEN 100 ELSE 1)),
                      7),
               (x.ex - (x.ex % 2)) \div 2)

\* Math.pow for a base x >= 0 (NaN for a negative base, as Math.pow gives for
\* every exponent that is not an integer).
MathPow(x, y) ==
    IF y.sg = 0 THEN One
    ELSE MathExp(FMul(y, MathLog(x)))

(***************************************************************************)
(* src/lib/calculations.ts                                                 *)
(***************************************************************************)
QpoisMaxTerms == 1000
NormalAbove == 100

\* The while loop of qpois.  qpoisWhile is its condition; qpoisLocals are
\* the locals with the condition already decided for them (more); qpoisBody
\* is one pass through the body with n and inc already updated, qpoisPass
\* one pass from the locals s.
qpoisWhile(p, sum, count) == FLt(sum, p) /\ count > 0

qpoisLocals(p, inc, n, sum, count) ==
    [inc |-> inc, n |-> n, sum |-> sum, count |-> count,
     more |-> qpoisWhile(p, sum, count)]

\* A faulty loop body: count is not decremented.
qpoisBody_CountKept(p, inc, n, sum, count) == qpoisLocals(p, inc, n, FAdd(sum, inc), count)

qpoisBody(p, inc, n, sum, count) == qpoisLocals(p, inc, n, FAdd(sum, inc), count - 1)

qpoisPass(p, lambda, s) ==
    qpoisBody(p, FDiv(FMul(s.inc, lambda), FromInt(s.n + 1)), s.n + 1, s.sum, s.count)

\* Up to 2^k passes of the loop from the locals s, stopping as soon as the
\* condition fails: the passes are taken in two halves, so evaluation nests
\* k deep rather than one level per pass.
RECURSIVE qpoisPasses(_, _, _, _)
qpoisPasses(p, lambda, s, k) ==
    IF ~s.more THEN s
    ELSE IF k = 0 THEN qpoisPass(p, lambda, s)
    ELSE qpoisPasses(p, lambda, qpoisPasses(p, lambda, s, k - 1), k - 1)

\* The locals when the loop exits.  count stops it after QpoisMaxTerms
\* passes, fewer than the 2^QpoisHalvings that qpoisPasses allows.
QpoisHalvings == 10
qpoisLoop(p, lambda, inc, n, sum, count) ==
    qpoisPasses(p, lambda, qpoisLocals(p, inc, n, sum, count), QpoisHalvings)

\* A faulty loop: count starts at 100.
qpoisFrom_Hundred(p, lambda, inc) == qpoisLoop(p, lambda, inc, 0, inc, 100)

\* The loop entered with inc = sum = e^-lambda.
qpoisFrom(p, lambda, inc) == qpoisLoop(p, lambda, inc, 0, inc, QpoisMaxTerms)

\* A faulty qpoisSum: the running sum starts at 0 instead of e^-lambda.
qpoisSum_SumFromZero(p, lambda) ==
    qpoisLoop(p, lambda, MathExp(FMul(FromInt(-1), lambda)), 0, Zero, QpoisMaxTerms)

qpoisSum(p, lambda) == qpoisFrom(p, lambda, MathExp(FMul(FromInt(-1), lambda)))

\* The normal approximation (Abramowitz & Stegun 26.2.23): t, the z it
\* gives before the reflection, and z.
qpoisT(p) ==
    MathSqrt(FMul(FromInt(-2), MathLog(IF FLt(p, Half) THEN p ELSE FSub(One, p))))

qpoisRational(t) ==
    FSub(t,
         FDiv(FAdd(FAdd(Dec(2515517, 1000000), FMul(Dec(802853, 1000000), t)),
                   FMul(FMul(Dec(10328, 1000000), t), t)),
              FAdd(FAdd(FAdd(One, FMul(Dec(1432788, 1000000), t)),
                        FMul(FMul(Dec(189269, 1000000), t), t)),
                   FMul(FMul(FMul(Dec(1308, 1000000), t), t), t))))

qpoisReflect(p, z) == IF FLt(p, Half) THEN FNeg(z) ELSE z

\* A faulty qpoisZ: the reflection about p = 0.5 has the wrong sign.
qpoisZ_ReversedSign(p) == FNeg(qpoisReflect(p, qpoisRational(qpoisT(p))))

qpoisZ(p) == qpoisReflect(p, qpoisRational(qpoisT(p)))

\* Math.max(0, x) of a count x.
MathMax0(x) == IF x = NotANumber THEN x ELSE Max(0, x)

qpoisNormal(p, lambda) ==
    MathMax0(MathRound(FAdd(lambda, FMul(qpoisZ(p), MathSqrt(lambda)))))

\* A faulty qpois: the guard on p >= 1 comes first.
qpois_PFirst(p, lambda) ==
    IF FGe(p, One) THEN Infinity
    ELSE IF FLe(lambda, Zero) THEN 0
    ELSE IF FLe(p, Zero) THEN 0
    ELSE IF FGt(lambda, FromInt(NormalAbove)) THEN qpoisNormal(p, lambda)
    ELSE qpoisSum(p, lambda).n

\* A faulty qpois: the guard on p is p > 1.
qpois_PAboveOne(p, lambda) ==
    IF FLe(lambda, Zero) THEN 0
    ELSE IF FLe(p, Zero) THEN 0
    ELSE IF FGt(p, One) THEN Infinity
    ELSE IF FGt(lambda, FromInt(NormalAbove)) THEN qpoisNormal(p, lambda)
    ELSE qpoisSum(p, lambda).n

\* qpois(p, lambda): a count, or Infinity.
qpois(p, lambda) ==
    IF FLe(lambda, Zero) THEN 0
    ELSE IF FLe(p, Zero) THEN 0
    ELSE IF FGe(p, One) THEN Infinity
    ELSE IF FGt(lambda, FromInt(NormalAbove)) THEN qpoisNormal(p, lambda)
    ELSE qpoisSum(p, lambda).n

\* Number of decimal digits of the integer part of |x| minus one
\* (the decimal exponent of x), x # 0.
DecExp(x) ==
    4 * x.ex + (IF x.mn[1] >= 1000 THEN 3 ELSE IF x.mn[1] >= 100 THEN 2
                ELSE IF x.mn[1] >= 10 THEN 1 ELSE 0)

\* Number(value.toPrecision(k)): value rounded to k significant digits.
ToPrecision(value, k) ==
    IF value.sg = 0 THEN Zero
    ELSE FMul(FromInt(value.sg
                      * MathRound(FMul(FAbs(value), PowTen(k - 1 - DecExp(value))))),
              PowTen(DecExp(value) - k + 1))

\* String(n) of a count n.
CountText(n) ==
    IF n = Infinity THEN "Infinity"
    ELSE IF n = MinusInfinity THEN "-Infinity"
    ELSE IF n = NotANumber THEN "NaN"
    ELSE ToString(n)

\* A faulty formatValue: two significant figures for every value below 100.
formatValue_TwoFigures(value) ==
    IF Special(value) THEN value
    ELSE IF FGe(value, FromInt(100)) THEN FromInt(MathRound(value))
    ELSE ToPrecision(value, 2)

\* formatValue: the number whose decimal notation is returned.
formatValue(value) ==
    IF Special(value) THEN value
    ELSE IF FGe(value, FromInt(100)) THEN FromInt(MathRound(value))
    ELSE ToPrecision(value, IF FLt(value, One) THEN 1 ELSE 2)

\* A faulty formatPercentage: 99 itself is shown as ">99%".
formatPercentage_From99(value) ==
    IF FGe(value, FromInt(99)) THEN ">99%"
    ELSE IF FLt(value, One) THEN "<1%"
    ELSE CountText(MathRound(value)) \o "%"

formatPercentage(value) ==
    IF FGt(value, FromInt(99)) THEN ">99%"
    ELSE IF FLt(value, One) THEN "<1%"
    ELSE CountText(MathRound(value)) \o "%"

\* A faulty calculateOmoriIntegral: the two ends of the range are swapped.
calculateOmoriIntegral_Swapped(rangeStart, rangeEnd, c, p) ==
    IF FLt(FAbs(FSub(p, One)), PowTen(-10))
    THEN FSub(MathLog(FAdd(rangeStart, c)), MathLog(FAdd(rangeEnd, c)))
    ELSE FDiv(FSub(MathPow(FAdd(rangeStart, c), FSub(One, p)),
                   MathPow(FAdd(rangeEnd, c), FSub(One, p))),
              FSub(One, p))

\* calculateOmoriIntegral takes the logarithmic form.
OmoriLogForm(p) == FLt(FAbs(FSub(p, One)), PowTen(-10))

\* What the power-law form divides by.
OmoriDivisor(p) == FSub(One, p)

calculateOmoriIntegral(rangeStart, rangeEnd, c, p) ==
    IF OmoriLogForm(p)
    THEN FSub(MathLog(FAdd(rangeEnd, c)), MathLog(FAdd(rangeStart, c)))
    ELSE FDiv(FSub(MathPow(FAdd(rangeEnd, c), FSub(One, p)),
                   MathPow(FAdd(rangeStart, c), FSub(One, p))),
              OmoriDivisor(p))

\* A faulty calculateExpectedAftershocks: the magnitude difference is taken
\* the wrong way round.
calculateExpectedAftershocks_Flipped(a, b, mainMag, minMag, omoriIntegral) ==
    FMul(MathPow(FromInt(10),
                 FAdd(a, FMul(b, FSub(FSub(minMag, Dec(5, 100)), mainMag)))),
         omoriIntegral)

calculateExpectedAftershocks(a, b, mainMag, minMag, omoriIntegral) ==
    FMul(MathPow(FromInt(10),
                 FAdd(a, FMul(b, FSub(mainMag, FSub(minMag, Dec(5, 100)))))),
         omoriIntegral)

\* The two probabilities calculateDurationForecast passes to qpois.
LowerP == Dec(25, 1000)
UpperP == Dec(975, 1000)

\* A faulty band difference: each band keeps its cumulative count minus the
\* next one.
ForecastDiffs_Reversed(vNabu) ==
    <<vNabu[1], FSub(vNabu[1], vNabu[2]), FSub(vNabu[2], vNabu[3])>>

\* The three band counts from the three cumulative counts.
ForecastDiffs(vNabu) ==
    <<vNabu[1], FSub(vNabu[2], vNabu[1]), FSub(vNabu[3], vNabu[2])>>

\* The three values f[1], f[2], f[3], each computed once.
Triple(f) == <<f[1], f[2], f[3]>>

\* The locals of calculateDurationForecast from the band counts on.
ForecastBands(omoriIntegral, vNabu, diff) ==
    [omoriIntegral |-> omoriIntegral,
     vNabu |-> vNabu,
     diff |-> diff,
     prob |-> Triple([i \in 1..3 |->
                        FMul(FromInt(100), FSub(One, MathExp(FNeg(diff[i]))))]),
     qpoisP |-> {LowerP, UpperP},
     lower |-> Triple([i \in 1..3 |-> qpois(LowerP, diff[i])]),
     upper |-> Triple([i \in 1..3 |-> qpois(UpperP, diff[i])])]

\* The locals from the cumulative counts on.
ForecastCounts(omoriIntegral, vNabu) ==
    ForecastBands(omoriIntegral, vNabu, ForecastDiffs(vNabu))

\* The locals from the Omori integral on.
ForecastIntegral(mag, m, params, omoriIntegral) ==
    ForecastCounts(omoriIntegral,
                   Triple([i \in 1..3 |->
                             calculateExpectedAftershocks(params.a, params.b, mag,
                                                          m[i], omoriIntegral)]))

\* The locals of calculateDurationForecast once past its two guards.
ForecastLocals(duration, mag, m1, m2, m3, rangeStartFromQuakeTime, params) ==
    ForecastIntegral(mag, <<m1, m2, m3>>, params,
                     calculateOmoriIntegral(rangeStartFromQuakeTime,
                                            FAdd(rangeStartFromQuakeTime, duration),
                                            params.c, params.p))

\* One band of the DurationForecast.
ForecastBand(loc, i) ==
    [averageNumber |-> formatValue(loc.diff[i]),
     range |-> CountText(loc.lower[i]) \o "-" \o CountText(loc.upper[i]),
     probability |-> formatPercentage(loc.prob[i])]

ForecastM(duration, band) ==
    [duration |-> duration, m1 |-> band[1], m2 |-> band[2], m3 |-> band[3]]

\* The DurationForecast built from the locals.
ForecastValue(duration, loc) ==
    ForecastM(duration, Triple([i \in 1..3 |-> ForecastBand(loc, i)]))

NoLocals == [omoriIntegral |-> Zero, vNabu |-> <<>>, diff |-> <<>>, prob |-> <<>>,
             qpoisP |-> {}, lower |-> <<>>, upper |-> <<>>]

\* What calculateDurationForecast returns, with its locals.
ForecastReturn(duration, loc) ==
    [threw |-> FALSE, error |-> "", locals |-> loc,
     value |-> ForecastValue(duration, loc)]

\* A faulty calculateDurationForecast: the guard on the duration is
\* duration < 0.
calculateDurationForecast_ZeroAllowed(duration, mag, m1, m2, m3, rangeStartFromQuakeTime, params) ==
    IF FLt(duration, Zero) \/ FLt(rangeStartFromQuakeTime, Zero)
    THEN [threw |-> TRUE, error |-> "", locals |-> NoLocals, value |-> <<>>]
    ELSE ForecastReturn(duration,
                        ForecastLocals(duration, mag, m1, m2, m3,
                                       rangeStartFromQuakeTime, params))

\* The input validation of calculateDurationForecast: the message of the
\* Error it throws, "" if it throws none.
ForecastError(duration, rangeStartFromQuakeTime) ==
    IF FLe(duration, Zero) THEN "Duration must be positive"
    ELSE IF FLt(rangeStartFromQuakeTime, Zero)
    THEN "Forecast cannot start before the earthquake occurred"
    ELSE ""

\* calculateDurationForecast: what it throws or returns, with its locals.
calculateDurationForecast(duration, mag, m1, m2, m3, rangeStartFromQuakeTime, params) ==
    IF ForecastError(duration, rangeStartFromQuakeTime) # ""
    THEN [threw |-> TRUE, error |-> ForecastError(duration, rangeStartFromQuakeTime),
          locals |-> NoLocals, value |-> <<>>]
    ELSE ForecastReturn(duration,
                        ForecastLocals(duration, mag, m1, m2, m3,
                                       rangeStartFromQuakeTime, params))

(***************************************************************************)
(* src/types/index.ts and the state of src/app/page.tsx.                   *)
(*                                                                         *)
(* On the page a magnitude is its decimal text, an instant is a count of   *)
(* hours, a text field holding an instant is <<>> (empty or unparsable) or *)
(* <<t>>, and a model parameter is a count of thousandths.  A nullable     *)
(* value is <<>> (null) or <<v>>.                                          *)
(***************************************************************************)
ModelTypes == {"nz", "sz", "california", "scr", "custom"}

MODEL_PRESETS ==
    [nz |-> [a |-> -1590, b |-> 1030, c |-> 40, p |-> 1070],
     sz |-> [a |-> -1970, b |-> 1000, c |-> 18, p |-> 920],
     california |-> [a |-> -1670, b |-> 910, c |-> 50, p |-> 1080],
     scr |-> [a |-> -2500, b |-> 1000, c |-> 50, p |-> 1000],
     custom |-> [a |-> -1590, b |-> 1030, c |-> 40, p |-> 1070]]

\* A faulty demo quake: magnitude 1.0.
DEMO_EARTHQUAKE_M1 == [quakeId |-> "2016p858000", magnitude |-> 10, quakeTime |-> 2]

\* DEMO_EARTHQUAKE: magnitude in tenths, origin time in hours.
DEMO_EARTHQUAKE == [quakeId |-> "2016p858000", magnitude |-> 78, quakeTime |-> 2]

\* What new Date() may read.
NowValues == {8}

PageInit ==
    /\ quakeId = "2022p138188"
    /\ magnitude = ""
    /\ quakeTime = <<>>
    /\ startTime \in {<<t>> : t \in NowValues}
    /\ isLoading = FALSE
    /\ loadedQuakeInfo = <<>>
    /\ isDemoMode = FALSE
    /\ modelType = "nz"
    /\ customParams = MODEL_PRESETS.nz
    /\ presets = MODEL_PRESETS
    /\ customAlias = "nz"
    /\ durations = <<1, 7, 30>>
    /\ magnitudeRanges = [m1 |-> 5, m2 |-> 4, m3 |-> 3]
    /\ results = <<>>
    /\ validationErrors = <<>>
    /\ error = <<>>
    /\ pending = <<>>
    /\ events = 0

(***************************************************************************)
(* Calls of the pure functions.  The arguments are drawn when the call is  *)
(* set up; each action runs one call and keeps what it returned.           *)
(***************************************************************************)
MaxLambdaHalves == 6
MaxDurationDays == 2

\* ---- qpois: two calls in a row, with the same p or the same lambda ----
PValues ==
    {Dec(-1, 4), Zero, LowerP, Dec(49999999, 100000000), Half, UpperP, One,
     Dec(3, 2)}

LambdaValues ==
    {FromInt(-1), Zero} \cup {Dec(k, 2) : k \in 1..MaxLambdaHalves}
    \cup {FromInt(50), FromInt(100), Dec(10001, 100), Dec(1005, 10), FromInt(101),
          FromInt(150), Inf(1)}

QpoisArgs == [p : PValues, lambda : LambdaValues]

QpoisInit ==
    /\ PageInit
    /\ pc = "qpois"
    /\ args \in {<<x, y>> : x \in QpoisArgs, y \in QpoisArgs}
    /\ \/ args[1].p = args[2].p /\ FLe(args[1].lambda, args[2].lambda)
       \/ args[1].lambda = args[2].lambda /\ FLe(args[1].p, args[2].p)
    /\ ret = <<>>

QpoisCall ==
    /\ pc = "qpois"
    /\ Len(ret) < Len(args)
    /\ LET x == args[Len(ret) + 1]
       IN  ret' = Append(ret, qpois(x.p, x.lambda))
    /\ UNCHANGED <<pc, args, pageVars>>

QpoisNext == QpoisCall
SpecQpois == QpoisInit /\ [][QpoisNext]_vars

\* ---- calculateDurationForecast: one call ----
Preset(a, b, c, p) ==
    [a |-> Dec(a, 1000), b |-> Dec(b, 1000), c |-> Dec(c, 1000), p |-> Dec(p, 1000)]

ParamValues ==
    {Preset(-1590, 1030, 40, 1070), Preset(-1970, 1000, 18, 920),
     Preset(-1670, 910, 50, 1080), Preset(-2500, 1000, 50, 1000),
     Preset(-1590, 0, 40, 1070), Preset(-1590, -1000, 40, 1070),
     Preset(400000, 1030, 40, 1070), Preset(-1590, 1030, 0, 1070)}

DurationValues ==
    {FromInt(d) : d \in -1..MaxDurationDays} \cup {Dec(1, 10), FromInt(30)}

RangeStartValues == {FromInt(-1), Zero, Dec(1, 24), FromInt(1)}

MagnitudeValues == {Dec(78, 10), Dec(55, 10)}

ThresholdValues == {<<5, 4, 3>>, <<7, 6, 5>>, <<3, 4, 5>>}

ForecastArgs ==
    [duration : DurationValues, mag : MagnitudeValues,
     m : {[i \in 1..3 |-> FromInt(t[i])] : t \in ThresholdValues},
     rangeStartFromQuakeTime : RangeStartValues, params : ParamValues]

ForecastInit ==
    /\ PageInit
    /\ pc = "forecast"
    /\ args \in ForecastArgs
    /\ ret = <<>>

ForecastCall ==
    /\ pc = "forecast"
    /\ ret' = calculateDurationForecast(args.duration, args.mag, args.m[1], args.m[2],
                                        args.m[3], args.rangeStartFromQuakeTime,
                                        args.params)
    /\ pc' = "returned"
    /\ UNCHANGED <<args, pageVars>>

ForecastNext == ForecastCall
SpecForecast == ForecastInit /\ [][ForecastNext]_vars

\* ---- calculateOmoriIntegral: one call ----
OmoriPValues ==
    {Dec(1, 2), Dec(92, 100), FSub(One, PowTen(-9)), FSub(One, PowTen(-11)), One,
     FAdd(One, PowTen(-11)), FAdd(One, PowTen(-10)), FAdd(One, PowTen(-9)),
     Dec(107, 100), FromInt(2), FromInt(1000)}

OmoriCValues == {Zero, Dec(1, 1000), Dec(4, 100), One}

OmoriStartValues == {Zero, Dec(1, 24), One}

OmoriLengths == {Zero, Dec(1, 10), FromInt(30)} \cup {FromInt(d) : d \in 1..MaxDurationDays}

OmoriArgs ==
    {[rangeStart |-> t, rangeEnd |-> FAdd(t, d), c |-> c, p |-> p] :
        t \in OmoriStartValues, d \in OmoriLengths, c \in OmoriCValues, p \in OmoriPValues}

OmoriInit ==
    /\ PageInit
    /\ pc = "omori"
    /\ args \in OmoriArgs
    /\ ret = <<>>

\* The call, with the form it takes and the divisor of the power-law form.
OmoriCall ==
    /\ pc = "omori"
    /\ ret' = [logForm |-> OmoriLogForm(args.p),
               divisor |-> OmoriDivisor(args.p),
               value |-> calculateOmoriIntegral(args.rangeStart, args.rangeEnd,
                                                args.c, args.p)]
    /\ pc' = "integrated"
    /\ UNCHANGED <<args, pageVars>>

OmoriNext == OmoriCall
SpecOmori == OmoriInit /\ [][OmoriNext]_vars

\* ---- formatValue and formatPercentage: one call of each ----
MaxQuarters == 404

FormatValues ==
    {Dec(k, 4) : k \in 0..MaxQuarters}
    \cup {Dec(k, 1000) : k \in {1, 12, 96, 949, 951, 995, 999, 1001, 1049, 98999,
                                99001, 99499, 99501, 99949, 99951, 99999}}
    \cup {Dec(k, 100000) : k \in {1, 14, 96}}
    \cup {FromInt(-1), Dec(-1, 4), Dec(2001, 2), FromInt(123456), NaN, Inf(1)}

FormatInit ==
    /\ PageInit
    /\ pc = "format"
    /\ args \in FormatValues
    /\ ret = <<>>

FormatCall ==
    /\ pc = "format"
    /\ ret' = [value |-> formatValue(args), percentage |-> formatPercentage(args)]
    /\ pc' = "formatted"
    /\ UNCHANGED <<args, pageVars>>

FormatNext == FormatCall
SpecFormat == FormatInit /\ [][FormatNext]_vars

(***************************************************************************)
(* The calculator page: src/app/page.tsx with the inputs of QuakeInput,    *)
(* Parameters and ModelSelector.  A DurationForecast held in results is    *)
(* kept as the call of calculateDurationForecast that computed it.         *)
(***************************************************************************)
MaxEvents == 4

\* What the user may type or pick.
QuakeIdInputs == {"", "abc", "2016p858000"}
MagnitudeInputs == {"", "6.5", "12"}
QuakeTimeInputs == {<<>>, <<5>>, <<9>>}
StartTimeInputs == {<<>>, <<4>>}
DurationInputs == {-5, 0, 14}
ThresholdInputs == {6, 10}
CustomInputs == {0, 1500}

\* What GeoNet may hold for a quake: magnitude in tenths, origin time in hours.
GeoNetQuakes == {[magnitude |-> 55, quakeTime |-> 5]}

\* The length of a trimmed quake id and whether it is alphanumeric.
QuakeIdShape(id) ==
    IF id = "" THEN [length |-> 0, alphanumeric |-> FALSE]
    ELSE IF id = "abc" THEN [length |-> 3, alphanumeric |-> TRUE]
    ELSE [length |-> 11, alphanumeric |-> TRUE]

validateQuakeId(id) ==
    /\ id # ""
    /\ QuakeIdShape(id).alphanumeric
    /\ QuakeIdShape(id).length >= 4
    /\ QuakeIdShape(id).length <= 20

ApiErrorCodes == {"INVALID_ID", "NOT_FOUND", "NETWORK_ERROR", "TIMEOUT", "PARSE_ERROR"}

\* number.toString() of a magnitude given in tenths.
MagnitudeToString(m) ==
    LET a == IF m < 0 THEN -m ELSE m
        digits == IF a % 10 = 0 THEN ToString(a \div 10)
                  ELSE ToString(a \div 10) \o "." \o ToString(a % 10)
    IN  IF m < 0 THEN "-" \o digits ELSE digits

\* parseFloat of the magnitude text: <<tenths>>, or <<>> for NaN.
parseFloat(text) ==
    LET S == {m \in -10..120 : MagnitudeToString(m) = text}
    IN  IF S = {} THEN <<>> ELSE <<CHOOSE m \in S : TRUE>>

\* Math.round of a number of tenths.
RoundTenths(x) == (x + 5) \div 10

calculateInitialMagnitudeRanges(m) ==
    LET m1 == Max(1, Min(9, RoundTenths(m - 5)))
    IN  [m1 |-> m1, m2 |-> Max(1, m1 - 1), m3 |-> Max(1, m1 - 2)]

canCalculate == magnitude # "" /\ quakeTime # <<>> /\ startTime # <<>>

EffectiveParams == IF modelType = "custom" THEN customParams ELSE presets[modelType]

\* <<message>> if the condition holds.
ErrorIf(cond, message) == IF cond THEN <<message>> ELSE <<>>

\* PARAMETER_BOUNDS, in thousandths.
PARAMETER_BOUNDS ==
    [a |-> [min |-> -4000, max |-> 0], b |-> [min |-> 500, max |-> 1500],
     c |-> [min |-> 1, max |-> 1000], p |-> [min |-> 500, max |-> 2000]]

\* What a message of validateModelParameters is made from.
BoundsMessage(key, value) ==
    [param |-> key, value |-> value, min |-> PARAMETER_BOUNDS[key].min,
     max |-> PARAMETER_BOUNDS[key].max]

\* A faulty validateModelParameters: a value on a bound is reported too.
validateModelParameters_Exclusive(params) ==
    ErrorIf(params.a <= PARAMETER_BOUNDS.a.min \/ params.a >= PARAMETER_BOUNDS.a.max,
            BoundsMessage("a", params.a))
    \o ErrorIf(params.b <= PARAMETER_BOUNDS.b.min \/ params.b >= PARAMETER_BOUNDS.b.max,
               BoundsMessage("b", params.b))
    \o ErrorIf(params.c <= PARAMETER_BOUNDS.c.min \/ params.c >= PARAMETER_BOUNDS.c.max,
               BoundsMessage("c", params.c))
    \o ErrorIf(params.p <= PARAMETER_BOUNDS.p.min \/ params.p >= PARAMETER_BOUNDS.p.max,
               BoundsMessage("p", params.p))

validateModelParameters(params) ==
    ErrorIf(params.a < PARAMETER_BOUNDS.a.min \/ params.a > PARAMETER_BOUNDS.a.max,
            BoundsMessage("a", params.a))
    \o ErrorIf(params.b < PARAMETER_BOUNDS.b.min \/ params.b > PARAMETER_BOUNDS.b.max,
               BoundsMessage("b", params.b))
    \o ErrorIf(params.c < PARAMETER_BOUNDS.c.min \/ params.c > PARAMETER_BOUNDS.c.max,
               BoundsMessage("c", params.c))
    \o ErrorIf(params.p < PARAMETER_BOUNDS.p.min \/ params.p > PARAMETER_BOUNDS.p.max,
               BoundsMessage("p", params.p))

\* The warnings the page shows (useMemo over modelType and customParams).
parameterWarnings == validateModelParameters(EffectiveParams)

\* One more user event.
UserEvent == events < MaxEvents /\ events' = events + 1

onQuakeIdChange ==
    /\ UserEvent
    /\ \E id \in QuakeIdInputs \ {quakeId} : quakeId' = id
    /\ error' = <<>>
    /\ UNCHANGED <<magnitude, quakeTime, startTime, isLoading, loadedQuakeInfo,
                   isDemoMode, modelType, customParams, durations,
                   magnitudeRanges, results, validationErrors, pending, callVars,
                   presets, customAlias>>

handleTryDemo ==
    /\ UserEvent
    /\ magnitude = "" /\ ~isDemoMode /\ loadedQuakeInfo = <<>>
    /\ results' = <<>>
    /\ validationErrors' = <<>>
    /\ isDemoMode' = TRUE
    /\ quakeId' = DEMO_EARTHQUAKE.quakeId
    /\ magnitude' = MagnitudeToString(DEMO_EARTHQUAKE.magnitude)
    /\ quakeTime' = <<DEMO_EARTHQUAKE.quakeTime>>
    /\ startTime' = <<DEMO_EARTHQUAKE.quakeTime + 1>>
    /\ magnitudeRanges' = calculateInitialMagnitudeRanges(DEMO_EARTHQUAKE.magnitude)
    /\ loadedQuakeInfo' = <<[magnitude |-> DEMO_EARTHQUAKE.magnitude,
                             time |-> DEMO_EARTHQUAKE.quakeTime]>>
    /\ UNCHANGED <<isLoading, modelType, customParams, durations, error, pending,
                   callVars,
                   presets, customAlias>>

dismissDemo ==
    /\ UserEvent
    /\ isDemoMode
    /\ isDemoMode' = FALSE
    /\ UNCHANGED <<quakeId, magnitude, quakeTime, startTime, isLoading,
                   loadedQuakeInfo, modelType, customParams, durations,
                   magnitudeRanges, results, validationErrors, error, pending,
                   callVars,
                   presets, customAlias>>

\* setCustomParams(MODEL_PRESETS[type]) makes customParams the registry's
\* object itself.
handleModelChange ==
    /\ UserEvent
    /\ \E type \in ModelTypes \ {modelType} :
          /\ modelType' = type
          /\ customParams' = IF type # "custom" THEN presets[type]
                             ELSE customParams
          /\ customAlias' = IF type # "custom" THEN type ELSE customAlias
    /\ results' = <<>>
    /\ UNCHANGED <<quakeId, magnitude, quakeTime, startTime, isLoading,
                   loadedQuakeInfo, isDemoMode, durations, magnitudeRanges,
                   validationErrors, error, pending, callVars, presets>>

\* A faulty edit: the parameter is written into the object customParams
\* refers to.
RegistryAfterEdit_InPlace(key, value) ==
    IF customAlias = "" THEN presets
    ELSE [presets EXCEPT ![customAlias] = [presets[customAlias] EXCEPT ![key] = value]]

\* The registry after handleParamChange: {...customParams, [key]: value} is
\* a new object, the one customParams referred to is left as it was.
RegistryAfterEdit(key, value) == presets

onCustomParamsChange ==
    /\ UserEvent
    /\ modelType = "custom"
    /\ \E key \in {"a", "b", "c", "p"}, value \in CustomInputs :
          /\ customParams' = [customParams EXCEPT ![key] = value]
          /\ presets' = RegistryAfterEdit(key, value)
    /\ customAlias' = ""
    /\ results' = <<>>
    /\ UNCHANGED <<quakeId, magnitude, quakeTime, startTime, isLoading,
                   loadedQuakeInfo, isDemoMode, modelType, durations,
                   magnitudeRanges, validationErrors, error, pending, callVars>>

handleDurationChange ==
    /\ UserEvent
    /\ \E index \in 1..3, input \in DurationInputs :
          LET value == IF input = 0 THEN 1 ELSE input
          IN  durations' = [durations EXCEPT ![index] = Max(1, Min(730, value))]
    /\ results' = <<>>
    /\ UNCHANGED <<quakeId, magnitude, quakeTime, startTime, isLoading,
                   loadedQuakeInfo, isDemoMode, modelType, customParams,
                   magnitudeRanges, validationErrors, error, pending, callVars,
                   presets, customAlias>>

handleMagnitudeRangesChange ==
    /\ UserEvent
    /\ \E key \in {"m1", "m2", "m3"}, value \in ThresholdInputs :
          magnitudeRanges' = [magnitudeRanges EXCEPT ![key] = value]
    /\ results' = <<>>
    /\ UNCHANGED <<quakeId, magnitude, quakeTime, startTime, isLoading,
                   loadedQuakeInfo, isDemoMode, modelType, customParams,
                   durations, validationErrors, error, pending, callVars,
                   presets, customAlias>>

\* handleParameterChange(setMagnitude | setQuakeTime | setStartTime)
handleParameterChange ==
    /\ UserEvent
    /\ \/ /\ \E v \in MagnitudeInputs \ {magnitude} : magnitude' = v
          /\ UNCHANGED <<quakeTime, startTime>>
       \/ /\ \E v \in QuakeTimeInputs \ {quakeTime} : quakeTime' = v
          /\ UNCHANGED <<magnitude, startTime>>
       \/ /\ \E v \in (StartTimeInputs \cup {<<t>> : t \in NowValues}) \ {startTime} :
                startTime' = v
          /\ UNCHANGED <<magnitude, quakeTime>>
    /\ results' = <<>>
    /\ validationErrors' = <<>>
    /\ UNCHANGED <<quakeId, isLoading, loadedQuakeInfo, isDemoMode, modelType,
                   customParams, durations, magnitudeRanges, error, pending,
                   callVars,
                   presets, customAlias>>

\* A faulty QuakeInput: the Load button and the Enter key work while loading.
canLoad_WhileLoading == quakeId # ""

\* The Load button is enabled (and the Enter key loads).
canLoad == ~isLoading /\ quakeId # ""

\* QuakeInput.handleLoad and handleLoadQuake up to its await: the fetch of the
\* quake id the handler was created with is now pending.
handleLoadQuake ==
    /\ UserEvent
    /\ canLoad
    /\ error' = <<>>
    /\ isLoading' = TRUE
    /\ results' = <<>>
    /\ validationErrors' = <<>>
    /\ loadedQuakeInfo' = <<>>
    /\ isDemoMode' = FALSE
    /\ pending' = Append(pending, quakeId)
    /\ UNCHANGED <<quakeId, magnitude, quakeTime, startTime, modelType,
                   customParams, durations, magnitudeRanges, callVars,
                   presets, customAlias>>

\* handleLoadQuake after its await, fetchQuakeData having returned data.
handleLoadQuakeResolved ==
    /\ pending # <<>>
    /\ validateQuakeId(Head(pending))
    /\ \E data \in GeoNetQuakes, now \in NowValues :
          /\ magnitude' = MagnitudeToString(data.magnitude)
          /\ quakeTime' = <<data.quakeTime>>
          /\ startTime' = <<now>>
          /\ magnitudeRanges' = calculateInitialMagnitudeRanges(data.magnitude)
          /\ loadedQuakeInfo' = <<[magnitude |-> data.magnitude,
                                   time |-> data.quakeTime]>>
    /\ isLoading' = FALSE
    /\ pending' = Tail(pending)
    /\ UNCHANGED <<quakeId, isDemoMode, modelType, customParams, durations,
                   results, validationErrors, error, events, callVars,
                   presets, customAlias>>

\* handleLoadQuake after its await, fetchQuakeData having thrown an ApiError,
\* which QuakeInput.handleLoad catches.
handleLoadQuakeRejected ==
    /\ pending # <<>>
    /\ \E code \in ApiErrorCodes :
          /\ (code = "INVALID_ID") <=> ~validateQuakeId(Head(pending))
          /\ error' = <<code>>
    /\ isLoading' = FALSE
    /\ pending' = Tail(pending)
    /\ UNCHANGED <<quakeId, magnitude, quakeTime, startTime, loadedQuakeInfo,
                   isDemoMode, modelType, customParams, durations,
                   magnitudeRanges, results, validationErrors, events, callVars,
                   presets, customAlias>>

\* A faulty validateInputs: M2 is not compared with M1.
validateInputs_M2Unchecked ==
    LET mag == parseFloat(magnitude)
        m1 == magnitudeRanges.m1
        m2 == magnitudeRanges.m2
        m3 == magnitudeRanges.m3
    IN  (IF mag = <<>> \/ mag[1] <= 0
         THEN <<"Please enter a valid magnitude greater than 0">>
         ELSE ErrorIf(mag[1] >= 100, "Magnitude must be less than 10"))
        \o ErrorIf(m1 > 9, "M1 must be 9 or less")
        \o ErrorIf(m3 >= m2, "M3 must be less than M2")
        \o ErrorIf(m3 < 1, "M3 must be at least 1")
        \o ErrorIf(quakeTime = <<>>, "Please enter a valid quake time")
        \o ErrorIf(startTime = <<>>, "Please enter a valid start time")
        \o ErrorIf(quakeTime # <<>> /\ startTime # <<>> /\ quakeTime[1] > startTime[1],
                   "Forecast start time must be after quake time")
        \o ErrorIf(durations[1] <= 0, "Forecast duration 1 must be positive")
        \o ErrorIf(durations[2] <= 0, "Forecast duration 2 must be positive")
        \o ErrorIf(durations[3] <= 0, "Forecast duration 3 must be positive")

validateInputs ==
    LET mag == parseFloat(magnitude)
        m1 == magnitudeRanges.m1
        m2 == magnitudeRanges.m2
        m3 == magnitudeRanges.m3
    IN  (IF mag = <<>> \/ mag[1] <= 0
         THEN <<"Please enter a valid magnitude greater than 0">>
         ELSE ErrorIf(mag[1] >= 100, "Magnitude must be less than 10"))
        \o ErrorIf(m1 > 9, "M1 must be 9 or less")
        \o ErrorIf(m2 >= m1, "M2 must be less than M1")
        \o ErrorIf(m3 >= m2, "M3 must be less than M2")
        \o ErrorIf(m3 < 1, "M3 must be at least 1")
        \o ErrorIf(quakeTime = <<>>, "Please enter a valid quake time")
        \o ErrorIf(startTime = <<>>, "Please enter a valid start time")
        \o ErrorIf(quakeTime # <<>> /\ startTime # <<>> /\ quakeTime[1] > startTime[1],
                   "Forecast start time must be after quake time")
        \o ErrorIf(durations[1] <= 0, "Forecast duration 1 must be positive")
        \o ErrorIf(durations[2] <= 0, "Forecast duration 2 must be positive")
        \o ErrorIf(durations[3] <= 0, "Forecast duration 3 must be positive")

\* A faulty call: every forecast is computed for the first duration.
DurationForecastCall_FirstDuration(duration) ==
    [duration |-> durations[1],
     mag |-> parseFloat(magnitude)[1],
     m1 |-> magnitudeRanges.m1, m2 |-> magnitudeRanges.m2, m3 |-> magnitudeRanges.m3,
     rangeStartFromQuakeTime |-> startTime[1] - quakeTime[1],
     params |-> EffectiveParams]

\* The call of calculateDurationForecast handleCalculate makes for a duration:
\* the magnitude in tenths, the start of the range in hours after the quake,
\* the parameters in thousandths.
DurationForecastCall(duration) ==
    [duration |-> duration,
     mag |-> parseFloat(magnitude)[1],
     m1 |-> magnitudeRanges.m1, m2 |-> magnitudeRanges.m2, m3 |-> magnitudeRanges.m3,
     rangeStartFromQuakeTime |-> startTime[1] - quakeTime[1],
     params |-> EffectiveParams]

\* A faulty computation: it fails for parameters out of their bounds.
ForecastThrows_OnWarnings(call) == validateModelParameters(call.params) # <<>>

\* The call throws: handleCalculate does not catch, so setResults is not
\* reached.
ForecastThrows(call) ==
    ForecastError(FromInt(call.duration), Dec(call.rangeStartFromQuakeTime, 24)) # ""

handleCalculate ==
    /\ UserEvent
    /\ canCalculate
    /\ LET errors == validateInputs
       IN  /\ validationErrors' = errors
           /\ results' =
                 IF errors # <<>> THEN results
                 ELSE IF \E i \in 1..3 : ForecastThrows(DurationForecastCall(durations[i]))
                 THEN results
                 ELSE <<[quakeId |-> quakeId,
                         rangeLabels |->
                            [range1 |-> "M" \o ToString(magnitudeRanges.m1) \o "+",
                             range2 |-> "M" \o ToString(magnitudeRanges.m2) \o "-M"
                                        \o ToString(magnitudeRanges.m1),
                             range3 |-> "M" \o ToString(magnitudeRanges.m3) \o "-M"
                                        \o ToString(magnitudeRanges.m2)],
                         forecasts |->
                            [i \in 1..3 |-> DurationForecastCall(durations[i])]]>>
    /\ UNCHANGED <<quakeId, magnitude, quakeTime, startTime, isLoading,
                   loadedQuakeInfo, isDemoMode, modelType, customParams,
                   durations, magnitudeRanges, error, pending, callVars,
                   presets, customAlias>>

\* The greatest magnitude, in tenths, of a call or of a GeoNet answer.
MaxMagnitudeTenths == 99

(***************************************************************************)
(* fetchQuakeData: one call.  args is the quake id passed; ret holds the   *)
(* abort timer ("none", "armed", "cleared" or "fired"), the number of      *)
(* network requests issued, what made the call fail (cause) and how the    *)
(* promise settled (outcome: <<>> while pending).                          *)
(***************************************************************************)
FetchIds == QuakeIdInputs \cup {" 2016p858000 "}

\* String.prototype.trim on the ids above.
trim(id) == IF id = " 2016p858000 " THEN "2016p858000" ELSE id

\* HTTP statuses the server may answer with.
HttpStatuses == {200, 204, 404, 500}

\* What fetch may reject with when no abort was signalled: an Error with a
\* name, whose message mentions "fetch" or "network" or does not.
FetchErrors ==
    {[name |-> "TypeError", mentions |-> TRUE], [name |-> "TypeError", mentions |-> FALSE]}

AbortError == [name |-> "AbortError", mentions |-> FALSE]

\* The bodies json() may resolve with: null; an object whose features are
\* missing (<<>> stands for both a missing and an empty list) or a list of
\* features; a feature is <<>> (no properties) or <<properties>>; magnitude
\* and time are <<>> when they are not a number or not a non-empty string.
FeatureProperties ==
    [magnitude : {<<>>} \cup {<<m>> : m \in 0..MaxMagnitudeTenths},
     time : {<<>>} \cup {<<t>> : t \in {5}}]

JsonBodies ==
    {[isNull |-> TRUE, features |-> <<>>], [isNull |-> FALSE, features |-> <<>>],
     [isNull |-> FALSE, features |-> <<(<<>>)>>]}
    \cup {[isNull |-> FALSE, features |-> <<(<<q>>)>>] : q \in FeatureProperties}

Rejected(type, code) == <<[ok |-> FALSE, type |-> type, code |-> code]>>
Resolved(data) == <<[ok |-> TRUE, data |-> data]>>

\* A faulty catch block: an error that is not an ApiError is thrown on as it
\* is.
FetchCatch_Rethrow(thrown) ==
    IF thrown.name = "ApiError" THEN Rejected("ApiError", thrown.code)
    ELSE Rejected(thrown.name, "")

\* The catch block of fetchQuakeData (after its clearTimeout): what the call
\* rejects with for the error thrown in the try block.
FetchCatch(thrown) ==
    IF thrown.name = "ApiError" THEN Rejected("ApiError", thrown.code)
    ELSE IF thrown.name = "AbortError" THEN Rejected("ApiError", "TIMEOUT")
    ELSE IF thrown.mentions THEN Rejected("ApiError", "NETWORK_ERROR")
    ELSE Rejected("ApiError", "NETWORK_ERROR")

ThrownApiError(code) == [name |-> "ApiError", code |-> code, mentions |-> FALSE]

\* Reading a property of null or undefined.
ThrownTypeError == [name |-> "TypeError", mentions |-> FALSE]

\* The try block from the response on, up to the call of response.json():
\* <<>> to go on, or <<error thrown>>.
FetchStatusThrows(status) ==
    IF status = 404 THEN <<ThrownApiError("NOT_FOUND")>>
    ELSE IF status < 200 \/ status > 299 THEN <<ThrownApiError("NETWORK_ERROR")>>
    ELSE <<>>

\* The try block from the parsed body on: the outcome of the call.
FetchBody(id, data) ==
    IF data.isNull THEN FetchCatch(ThrownTypeError)
    ELSE IF data.features = <<>> THEN FetchCatch(ThrownApiError("NOT_FOUND"))
    ELSE IF data.features[1] = <<>> THEN FetchCatch(ThrownTypeError)
    ELSE IF data.features[1][1].magnitude = <<>> THEN FetchCatch(ThrownApiError("PARSE_ERROR"))
    ELSE IF data.features[1][1].time = <<>> THEN FetchCatch(ThrownApiError("PARSE_ERROR"))
    ELSE Resolved([quakeId |-> id, magnitude |-> data.features[1][1].magnitude[1],
                   quakeTime |-> data.features[1][1].time[1]])

FetchInit ==
    /\ PageInit
    /\ pc = "fetch"
    /\ args \in FetchIds
    /\ ret = [timer |-> "none", requests |-> 0, cause |-> "", outcome |-> <<>>]

\* fetchQuakeData up to its first await: the id is validated, then the timer
\* is set and the request issued.
FetchStart ==
    /\ pc = "fetch"
    /\ IF ~validateQuakeId(trim(args))
       THEN /\ ret' = [ret EXCEPT !.cause = "invalid id",
                                  !.outcome = Rejected("ApiError", "INVALID_ID")]
            /\ pc' = "settled"
       ELSE /\ ret' = [ret EXCEPT !.timer = "armed", !.requests = 1]
            /\ pc' = "awaiting fetch"
    /\ UNCHANGED <<args, pageVars>>

\* The timer fires: controller.abort() makes fetch reject with an
\* AbortError, which the catch block turns into TIMEOUT.
FetchTimerFires ==
    /\ ret.timer = "armed"
    /\ ret' = [ret EXCEPT !.timer = "fired", !.cause = "abort",
                          !.outcome = IF pc = "awaiting fetch" THEN FetchCatch(AbortError)
                                      ELSE ret.outcome]
    /\ pc' = IF pc = "awaiting fetch" THEN "settled" ELSE pc
    /\ UNCHANGED <<args, pageVars>>

\* fetch rejects (no connection, DNS, CORS).
FetchFails ==
    /\ pc = "awaiting fetch"
    /\ \E e \in FetchErrors :
          ret' = [ret EXCEPT !.timer = "cleared", !.cause = "fetch rejects",
                             !.outcome = FetchCatch(e)]
    /\ pc' = "settled"
    /\ UNCHANGED <<args, pageVars>>

\* fetch resolves with a response: the timer is cleared and the status
\* examined; with an OK status the call awaits response.json().
FetchResponds ==
    /\ pc = "awaiting fetch"
    /\ \E status \in HttpStatuses :
          IF FetchStatusThrows(status) # <<>>
          THEN /\ ret' = [ret EXCEPT !.timer = "cleared",
                                     !.cause = IF status = 404 THEN "status 404"
                                               ELSE "status not ok",
                                     !.outcome = FetchCatch(FetchStatusThrows(status)[1])]
               /\ pc' = "settled"
          ELSE /\ ret' = [ret EXCEPT !.timer = "cleared"]
               /\ pc' = "awaiting json"
    /\ UNCHANGED <<args, pageVars>>

\* response.json() rejects: the inner catch throws PARSE_ERROR.
FetchJsonRejects ==
    /\ pc = "awaiting json"
    /\ ret' = [ret EXCEPT !.cause = "unparsable body",
                          !.outcome = FetchCatch(ThrownApiError("PARSE_ERROR"))]
    /\ pc' = "settled"
    /\ UNCHANGED <<args, pageVars>>

\* What went wrong with a parsed body, "" if nothing.
BodyCause(data) ==
    IF data.isNull THEN "other error"
    ELSE IF data.features = <<>> THEN "no features"
    ELSE IF data.features[1] = <<>> THEN "other error"
    ELSE IF data.features[1][1].magnitude = <<>> THEN "magnitude not a number"
    ELSE IF data.features[1][1].time = <<>> THEN "time missing"
    ELSE ""

\* response.json() resolves with a body.
FetchJsonResolves ==
    /\ pc = "awaiting json"
    /\ \E data \in JsonBodies :
          ret' = [ret EXCEPT !.cause = BodyCause(data),
                             !.outcome = FetchBody(trim(args), data)]
    /\ pc' = "settled"
    /\ UNCHANGED <<args, pageVars>>

FetchNext ==
    \/ FetchStart
    \/ FetchTimerFires
    \/ FetchFails
    \/ FetchResponds
    \/ FetchJsonRejects
    \/ FetchJsonResolves

SpecFetch == FetchInit /\ [][FetchNext]_vars

\* The call proceeds by itself and a timer that is set fires unless it is
\* cleared first; nothing obliges the server to answer or to finish a body.
SpecFetchLive ==
    FetchInit /\ [][FetchNext]_vars /\ WF_vars(FetchStart) /\ WF_vars(FetchTimerFires)

\* ---- calculateInitialMagnitudeRanges: one call, the magnitude in tenths ----
RangesInit ==
    /\ PageInit
    /\ pc = "ranges"
    /\ args \in 0..MaxMagnitudeTenths
    /\ ret = <<>>

RangesCall ==
    /\ pc = "ranges"
    /\ ret' = calculateInitialMagnitudeRanges(args)
    /\ pc' = "ranged"
    /\ UNCHANGED <<args, pageVars>>

RangesNext == RangesCall
SpecRanges == RangesInit /\ [][RangesNext]_vars

Init ==
    /\ PageInit
    /\ pc = "page"
    /\ args = <<>>
    /\ ret = <<>>

Next ==
    \/ onQuakeIdChange
    \/ handleLoadQuake
    \/ handleLoadQuakeResolved
    \/ handleLoadQuakeRejected
    \/ handleTryDemo
    \/ dismissDemo
    \/ handleModelChange
    \/ onCustomParamsChange
    \/ handleDurationChange
    \/ handleMagnitudeRangesChange
    \/ handleParameterChange
    \/ handleCalculate

Spec == Init /\ [][Next]_vars

\* The DurationForecast a call held in results stands for.
DurationForecastOf(call) ==
    calculateDurationForecast(FromInt(call.duration), Dec(call.mag, 10),
                              FromInt(call.m1), FromInt(call.m2), FromInt(call.m3),
                              Dec(call.rangeStartFromQuakeTime, 24),
                              Preset(call.params.a, call.params.b, call.params.c,
                                     call.params.p)).value

\* The inputs in state are ones handleCalculate accepts.
InputsValid == canCalculate /\ validateInputs = <<>>

\* The forecasts are those of the inputs in state.
ForecastsCurrent(forecasts) ==
    /\ InputsValid
    /\ \A i \in 1..3 :
          \/ forecasts[i] = DurationForecastCall(durations[i])
          \/ DurationForecastOf(forecasts[i])
               = DurationForecastOf(DurationForecastCall(durations[i]))

\* C2: in every reachable state of the page, results that are not null hold
\* the forecast of the magnitude, quake time, start time, durations,
\* thresholds and effective model parameters in state.
C2_ResultsCurrent ==
    results # <<>> => ForecastsCurrent(results[1].forecasts)

(***************************************************************************)
(* Properties of calculateDurationForecast (under SpecForecast).           *)
(***************************************************************************)
\* The call has returned a DurationForecast.
Forecasted == pc = "returned" /\ ~ret.threw

\* The thresholds of the call satisfy m1 > m2 > m3.
Descending == FGt(args.m[1], args.m[2]) /\ FGt(args.m[2], args.m[3])

\* The three cumulative expected counts of the call are finite numbers.
FiniteCounts == \A i \in 1..3 : IsFinite(ret.locals.vNabu[i])

\* C1: a call of calculateDurationForecast with duration <= 0, or with
\* rangeStartFromQuakeTime < 0, throws and returns no DurationForecast,
\* whatever the magnitude, the thresholds and the model parameters are.
C1_ThrowsOnBadRange ==
    (pc = "returned"
     /\ (FLe(args.duration, Zero) \/ FLt(args.rangeStartFromQuakeTime, Zero)))
    => (ret.threw /\ ret.value = <<>>)

C1_Witness ==
    /\ pc = "returned"
    /\ args.duration = Zero
    /\ FGe(args.rangeStartFromQuakeTime, Zero)
    /\ ret.threw
    /\ ret.error = "Duration must be positive"

\* C3 as stated: a call that returns, with m1 > m2 > m3 and c > 0, gives each
\* band an expected count >= 0 and a probability within [0, 100].
C3_AsStated ==
    (Forecasted /\ Descending /\ FGt(args.params.c, Zero))
    => \A i \in 1..3 :
          /\ FGe(ret.locals.diff[i], Zero)
          /\ FGe(ret.locals.prob[i], Zero)
          /\ FLe(ret.locals.prob[i], FromInt(100))

\* C3, amended: a call that returns, with m1 > m2 > m3, c > 0, b >= 0 and
\* finite cumulative expected counts, gives each band an expected count >= 0
\* and a probability within [0, 100].
C3_BandsInRange ==
    (Forecasted /\ Descending /\ FGt(args.params.c, Zero)
     /\ FGe(args.params.b, Zero) /\ FiniteCounts)
    => \A i \in 1..3 :
          /\ FGe(ret.locals.diff[i], Zero)
          /\ FGe(ret.locals.prob[i], Zero)
          /\ FLe(ret.locals.prob[i], FromInt(100))

C3_Witness ==
    /\ Forecasted /\ Descending /\ FiniteCounts
    /\ FGt(args.params.c, Zero) /\ FGt(args.params.b, Zero)
    /\ FGt(ret.locals.diff[2], Zero)
    /\ FGt(ret.locals.prob[1], Zero)
    /\ FLt(ret.locals.prob[1], FromInt(100))

\* A count that is a finite non-negative integer.
FiniteCount(n) == n >= 0 /\ n < Infinity

\* C4 as stated: in a call that returns, the bounds qpois(0.025, band) and
\* qpois(0.975, band) of every band are finite non-negative integers with
\* lower <= upper, and qpois is never called with p = 1.
C4_AsStated ==
    Forecasted
    => /\ \A i \in 1..3 :
             /\ FiniteCount(ret.locals.lower[i])
             /\ FiniteCount(ret.locals.upper[i])
             /\ ret.locals.lower[i] <= ret.locals.upper[i]
       /\ One \notin ret.locals.qpoisP

\* C4, amended: in a call that returns, the bounds of every band whose
\* expected count is a finite number are finite non-negative integers with
\* lower <= upper, and qpois is never called with p = 1.
C4_BoundsOrdered ==
    Forecasted
    => /\ \A i \in 1..3 :
             IsFinite(ret.locals.diff[i])
             => /\ FiniteCount(ret.locals.lower[i])
                /\ FiniteCount(ret.locals.upper[i])
                /\ ret.locals.lower[i] <= ret.locals.upper[i]
       /\ One \notin ret.locals.qpoisP

C4_Witness ==
    /\ Forecasted
    /\ \A i \in 1..3 : IsFinite(ret.locals.diff[i])
    /\ FLe(ret.locals.diff[1], FromInt(NormalAbove))
    /\ 0 < ret.locals.lower[1]
    /\ ret.locals.lower[1] < ret.locals.upper[1]
    /\ FGt(ret.locals.diff[3], FromInt(NormalAbove))
    /\ ret.locals.lower[3] < ret.locals.upper[3]

RECURSIVE Horner(_, _, _)
Horner(lambda, k, acc) ==
    IF k = 0 \/ ~IsFinite(acc) THEN acc
    ELSE Horner(lambda, k - 1, FAdd(One, FMul(FDiv(lambda, FromInt(k)), acc)))

\* The reference Poisson CDF: P(X <= n) for X ~ Poisson(lambda).
PoissonCDF(n, lambda) == FMul(MathExp(FNeg(lambda)), Horner(lambda, n, One))

\* n is the smallest non-negative integer with P(X <= n) >= p.
IsQuantile(n, p, lambda) ==
    /\ FiniteCount(n)
    /\ FGe(PoissonCDF(n, lambda), p)
    /\ n > 0 => FLt(PoissonCDF(n - 1, lambda), p)

\* The call just made, and what it returned.
LastArgs == args[Len(ret)]
LastRet == ret[Len(ret)]
InUnit(p) == FGt(p, Zero) /\ FLt(p, One)

\* C5 as stated: for 0 < p < 1 and lambda > 0, qpois(p, lambda) is the
\* smallest n whose reference Poisson CDF is >= p.
C5_AsStated ==
    (pc = "qpois" /\ Len(ret) > 0 /\ InUnit(LastArgs.p)
     /\ FGt(LastArgs.lambda, Zero))
    => IsQuantile(LastRet, LastArgs.p, LastArgs.lambda)

\* C5, amended: for 0 < p < 1 and 0 < lambda <= 100, qpois(p, lambda) is the
\* smallest n whose reference Poisson CDF is >= p.
C5_InverseCDF ==
    (pc = "qpois" /\ Len(ret) > 0 /\ InUnit(LastArgs.p)
     /\ FGt(LastArgs.lambda, Zero)
     /\ FLe(LastArgs.lambda, FromInt(NormalAbove)))
    => IsQuantile(LastRet, LastArgs.p, LastArgs.lambda)

C5_Witness ==
    /\ pc = "qpois" /\ Len(ret) = 2
    /\ args[1].p = LowerP /\ args[2].p = UpperP
    /\ args[1].lambda = FromInt(NormalAbove)
    /\ args[2].lambda = FromInt(NormalAbove)
    /\ ret = <<81, 120>>

\* C6: for a fixed p in (0, 1), qpois(p, lambda) does not decrease as lambda
\* grows over the finite lambda >= 0, the switch at lambda = 100 included.
C6_MonotoneInLambda ==
    (pc = "qpois" /\ Len(ret) = 2 /\ args[1].p = args[2].p /\ InUnit(args[1].p)
     /\ FGe(args[1].lambda, Zero) /\ FLe(args[1].lambda, args[2].lambda)
     /\ IsFinite(args[2].lambda))
    => ret[1] <= ret[2]

\* C7: for a fixed finite lambda, qpois(p, lambda) does not decrease as p
\* grows, in both numeric regimes.
C7_MonotoneInP ==
    (pc = "qpois" /\ Len(ret) = 2 /\ args[1].lambda = args[2].lambda
     /\ IsFinite(args[1].lambda) /\ FLe(args[1].p, args[2].p))
    => ret[1] <= ret[2]

\* C8: qpois returns 0 for every call with lambda <= 0 and for every call
\* with p <= 0; so qpois(p, 0) = 0 for every p in (0, 1).
C8_ZeroGuards ==
    (pc = "qpois" /\ Len(ret) > 0
     /\ (FLe(LastArgs.lambda, Zero) \/ FLe(LastArgs.p, Zero)))
    => LastRet = 0

C8_Witness ==
    /\ pc = "qpois" /\ Len(ret) = 2
    /\ args[1].lambda = Zero /\ InUnit(args[1].p) /\ ret[1] = 0
    /\ args[2].lambda = Zero /\ FGe(args[2].p, One) /\ ret[2] = 0

\* C9 as stated: qpois returns +Infinity for every call with p >= 1, for
\* every lambda.
C9_AsStated ==
    (pc = "qpois" /\ Len(ret) > 0 /\ FGe(LastArgs.p, One))
    => LastRet = Infinity

\* C9, amended: qpois returns +Infinity for every call with p >= 1 whose
\* lambda is not <= 0.
C9_InfinityAtOne ==
    (pc = "qpois" /\ Len(ret) > 0 /\ FGe(LastArgs.p, One)
     /\ ~FLe(LastArgs.lambda, Zero))
    => LastRet = Infinity

C9_Witness ==
    /\ pc = "qpois" /\ Len(ret) = 2
    /\ args[1].p = One /\ FGt(args[1].lambda, Zero) /\ ret[1] = Infinity
    /\ FGt(args[2].p, One) /\ ret[2] = Infinity

(***************************************************************************)
(* Properties of the page's Calculate (under Spec).                        *)
(***************************************************************************)
\* The calls of calculateDurationForecast the last successful Calculate made.
Forecasts == IF results = <<>> THEN <<>> ELSE results[1].forecasts

\* C11: in every state reachable by selecting models and editing the custom
\* parameters before Calculate, the parameters of every call of
\* calculateDurationForecast (which passes them on to calculateOmoriIntegral)
\* have c > 0.
C11_PositiveC ==
    \A i \in DOMAIN Forecasts : Forecasts[i].params.c > 0

\* The call meets what calculateDurationForecast asks of its caller.
CallValid(call) ==
    /\ call.m1 > call.m2 /\ call.m2 > call.m3
    /\ call.duration > 0
    /\ call.rangeStartFromQuakeTime >= 0

\* The calls handleCalculate makes from the inputs in state.
CallsOfState == [i \in 1..3 |-> DurationForecastCall(durations[i])]

\* C12: whenever handleCalculate gets past validateInputs, each call of
\* calculateDurationForecast it makes has m1 > m2 > m3, duration > 0 and
\* rangeStartFromQuakeTime >= 0, and so none of the calls throws.
C12_CallsValid ==
    InputsValid =>
        \A i \in 1..3 : CallValid(CallsOfState[i]) /\ ~ForecastThrows(CallsOfState[i])

\* Calculate has run on a duration the user edited and has stored its calls.
C12_Witness ==
    /\ InputsValid
    /\ durations[1] = 14
    /\ Forecasts = CallsOfState
    /\ validationErrors = <<>>

(***************************************************************************)
(* Properties of validateModelParameters (under Spec).                     *)
(***************************************************************************)
ParamKeys == <<"a", "b", "c", "p">>

\* The effective value of the parameter lies within its bounds, inclusive.
WithinBounds(key) ==
    /\ EffectiveParams[key] >= PARAMETER_BOUNDS[key].min
    /\ EffectiveParams[key] <= PARAMETER_BOUNDS[key].max

\* The positions of the warnings about the parameter.
WarningsAbout(key) == {i \in DOMAIN parameterWarnings : parameterWarnings[i].param = key}

\* C13: validateModelParameters returns exactly one warning for each of a, b,
\* c and p outside its inclusive bounds, none for a parameter within them,
\* in the order a, b, c, p; the list is empty exactly when all four are
\* within bounds.
C13_OneWarningEach ==
    /\ \A k \in 1..4 :
          Cardinality(WarningsAbout(ParamKeys[k])) = IF WithinBounds(ParamKeys[k]) THEN 0 ELSE 1
    /\ \A j, k \in 1..4 :
          \A x \in WarningsAbout(ParamKeys[j]), y \in WarningsAbout(ParamKeys[k]) :
              j < k => x < y
    /\ (parameterWarnings = <<>>) <=> \A k \in 1..4 : WithinBounds(ParamKeys[k])

\* Custom parameters with a above its maximum, b on its maximum and c below
\* its minimum: two warnings, about a and then about c.
C13_Witness ==
    /\ modelType = "custom"
    /\ customParams.a = 1500 /\ customParams.b = 1500 /\ customParams.c = 0
    /\ Len(parameterWarnings) = 2
    /\ parameterWarnings[1].param = "a" /\ parameterWarnings[2].param = "c"

(***************************************************************************)
(* Properties of handleCalculate's outcome (under Spec).                   *)
(***************************************************************************)
\* A step of handleCalculate; what the handler leaves alone is compared
\* first.
CalculateStep ==
    /\ UNCHANGED <<quakeId, magnitude, quakeTime, startTime, isLoading,
                   loadedQuakeInfo, isDemoMode, modelType, customParams,
                   durations, magnitudeRanges, error, pending>>
    /\ handleCalculate

\* C14: parameter warnings never block the computation: a handleCalculate
\* whose validateInputs reports no error stores results computed from the
\* inputs in state, whether or not validateModelParameters returns warnings.
C14_WarningsDoNotBlock ==
    [][(CalculateStep /\ validateInputs = <<>>)
       => (results' # <<>> /\ results'[1].forecasts = CallsOfState)]_vars

\* Calculate has stored results while the page showed parameter warnings.
C14_Witness ==
    /\ results # <<>>
    /\ parameterWarnings # <<>>
    /\ Forecasts = CallsOfState
    /\ Forecasts[1].params = customParams

\* The calls stand for one DurationForecast per configured duration, in the
\* order of the durations: each was returned (not thrown), carries its
\* duration, and all were computed from the same inputs.
WholeSet(calls) ==
    /\ DOMAIN calls = DOMAIN durations
    /\ \A i \in DOMAIN calls :
          /\ ~ForecastThrows(calls[i])
          /\ calls[i].duration = durations[i]
          /\ [calls[i] EXCEPT !.duration = 0] = [calls[1] EXCEPT !.duration = 0]

\* C15: handleCalculate either leaves results as they were (validateInputs
\* reported an error, or a computation failed) or replaces them with exactly
\* one complete DurationForecast per configured duration, in order, each
\* carrying its duration; it never stores a partial or mixed set.
C15_AllOrNothing ==
    [][CalculateStep
       => IF validateInputs # <<>> \/ \E i \in 1..3 : ForecastThrows(CallsOfState[i])
          THEN results' = results
          ELSE results' # <<>> /\ WholeSet(results'[1].forecasts)]_vars

\* Calculate has replaced the results of an earlier Calculate by those of an
\* edited duration.
C15_Witness ==
    /\ events = 4
    /\ durations[2] = 14
    /\ results # <<>>
    /\ Forecasts = CallsOfState
    /\ modelType = "nz"

(***************************************************************************)
(* Properties of formatPercentage and formatValue (under SpecFormat).      *)
(***************************************************************************)
\* r is the integer k and lies within one half of x.
NearestInteger(r, k, x) == r = FromInt(k) /\ FLe(FAbs(FSub(r, x)), Half)

\* The percentage text is that of the integer nearest to the value.
NearestPercent(text, value) ==
    \E k \in 1..99 : text = ToString(k) \o "%" /\ NearestInteger(FromInt(k), k, value)

\* C16: formatPercentage maps every value in [0, 100] to ">99%" when it is
\* above 99, to "<1%" when it is below 1, and otherwise to its nearest
\* integer followed by "%"; so the text is ">99%", "<1%" or "k%" with
\* 1 <= k <= 99.
C16_PercentageText ==
    (pc = "formatted" /\ FGe(args, Zero) /\ FLe(args, FromInt(100)))
    => /\ FGt(args, FromInt(99)) => ret.percentage = ">99%"
       /\ FLt(args, One) => ret.percentage = "<1%"
       /\ (FGe(args, One) /\ FLe(args, FromInt(99))) => NearestPercent(ret.percentage, args)

\* 98.5 lies halfway and 99 is not above 99: both are shown as "99%".
C16_Witness ==
    /\ pc = "formatted"
    /\ args \in {Dec(197, 2), FromInt(99)}
    /\ ret.percentage = "99%"

\* x is a whole number.
IsWhole(x) == FromInt(FFloor(x)) = x

\* r is a whole multiple of unit and lies within half a unit of x.
NearestMultiple(r, x, unit) ==
    IsWhole(FDiv(r, unit)) /\ FLe(FAbs(FSub(r, x)), FMul(Half, unit))

\* r is x rounded to k significant figures.
SignificantFigures(r, x, k) ==
    IF x.sg = 0 THEN r = Zero ELSE NearestMultiple(r, x, PowTen(DecExp(x) - k + 1))

\* C17: formatValue rounds a value of 100 or more to the nearest integer, a
\* value below 1 to one significant figure and any other value to two; the
\* rules agree at 1 and at 100: a value that rounds up to 1 or to 100 is
\* shown as 1 or as 100.
C17_ValueRounding ==
    (pc = "formatted" /\ IsFinite(args))
    => /\ FGe(args, FromInt(100)) => NearestMultiple(ret.value, args, One)
       /\ FLt(args, One) => SignificantFigures(ret.value, args, 1)
       /\ (FGe(args, One) /\ FLt(args, FromInt(100))) => SignificantFigures(ret.value, args, 2)
       /\ (FGe(args, Dec(995, 10)) /\ FLt(args, FromInt(100))) => ret.value = FromInt(100)
       /\ (FGe(args, Dec(95, 100)) /\ FLt(args, One)) => ret.value = One

\* 99.75 rounds up to 100 under the two-figure rule.
C17_Witness ==
    /\ pc = "formatted"
    /\ args = Dec(399, 4)
    /\ ret.value = FromInt(100)

(***************************************************************************)
(* A longer against a shorter forecast duration (under SpecForecast).      *)
(***************************************************************************)
\* The positive durations below the duration of the call.
ShorterDurations == {d \in DurationValues : FGt(d, Zero) /\ FLt(d, args.duration)}

\* The longest of them.
ShorterDuration == CHOOSE d \in ShorterDurations : \A e \in ShorterDurations : FLe(e, d)

\* The same call for the shorter duration.
ShorterForecast ==
    calculateDurationForecast(ShorterDuration, args.mag, args.m[1], args.m[2], args.m[3],
                              args.rangeStartFromQuakeTime, args.params)

\* The spec's scenario: New Zealand generic parameters, M7.8, thresholds
\* 5/4/3, forecast from the quake on, one day (against a tenth of a day).
Scenario ==
    /\ args.params = Preset(-1590, 1030, 40, 1070)
    /\ args.mag = Dec(78, 10)
    /\ args.m = <<FromInt(5), FromInt(4), FromInt(3)>>
    /\ args.rangeStartFromQuakeTime = Zero
    /\ args.duration = One
    /\ ShorterDuration = Dec(1, 10)

\* Where a percentage text stands among the texts of formatPercentage.
PercentRank(text) ==
    IF text = "<1%" THEN 0
    ELSE IF text = ">99%" THEN 100
    ELSE IF \E k \in 1..99 : text = ToString(k) \o "%"
    THEN CHOOSE k \in 1..99 : text = ToString(k) \o "%"
    ELSE -1

\* Band 1 as returned: the count and the probability shown are both greater
\* for long than for short.
ReturnedGreater(long, short) ==
    /\ FGt(long.value.m1.averageNumber, short.value.m1.averageNumber)
    /\ PercentRank(long.value.m1.probability) > PercentRank(short.value.m1.probability)

\* Band 1 as computed: the count is greater for long than for short and the
\* probability is not less; as returned, neither is less.
ComputedGreater(long, short) ==
    /\ FGt(long.locals.diff[1], short.locals.diff[1])
    /\ FGe(long.locals.prob[1], short.locals.prob[1])
    /\ FGe(long.value.m1.averageNumber, short.value.m1.averageNumber)
    /\ PercentRank(long.value.m1.probability) >= PercentRank(short.value.m1.probability)

\* The scenario's outcome: 81 against 33 events, ">99%" both times.
ScenarioOutcome(long, short) ==
    /\ long.value.m1.averageNumber = FromInt(81)
    /\ short.value.m1.averageNumber = FromInt(33)
    /\ long.value.m1.probability = ">99%"
    /\ short.value.m1.probability = ">99%"

SummationRegime(x) ==
    InUnit(x.p) /\ FGt(x.lambda, Zero) /\ FLe(x.lambda, FromInt(NormalAbove))

\* The passes the loop has made when it leaves the locals s.
Iterations(s) == QpoisMaxTerms - s.count

\* The loop has exited with locals s after n passes, at most QpoisMaxTerms.
ExitedAfter(s, n) ==
    /\ ~s.more
    /\ s.n = n
    /\ Iterations(s) = n
    /\ n \in 0..QpoisMaxTerms

\* C19: every call of qpois returns; in the summation regime
\* (0 < lambda <= 100, 0 < p < 1) the loop makes at most 1000 passes and the
\* n returned is an integer in 0..1000, the number of passes made.
C19_LoopBounded ==
    (pc = "qpois" /\ Len(ret) > 0)
    => /\ LastRet \in Int
       /\ SummationRegime(LastArgs)
          => ExitedAfter(qpoisSum(LastArgs.p, LastArgs.lambda), LastRet)

\* qpois(0.975, 50) has returned after 64 passes.
C19_Witness ==
    /\ pc = "qpois" /\ Len(ret) = 1
    /\ args[1] = [p |-> UpperP, lambda |-> FromInt(50)]
    /\ ret[1] = 64
    /\ Iterations(qpoisSum(UpperP, FromInt(50))) = 64

\* The loop has exited with the running sum at p or above.
SumReached(s, p) == ~s.more /\ FGe(s.sum, p)

\* C20: for 0 < lambda <= 100 and p one of 0.025 and 0.975, the two values
\* calculateDurationForecast passes, the loop of qpois exits because the
\* running sum has reached p, not because the 1000 passes are used up.
C20_SumReachesP ==
    (pc = "qpois" /\ Len(ret) > 0 /\ SummationRegime(LastArgs)
     /\ LastArgs.p \in {LowerP, UpperP})
    => SumReached(qpoisSum(LastArgs.p, LastArgs.lambda), LastArgs.p)

\* qpois(0.975, 100) has returned with 880 of the 1000 passes unused.
C20_Witness ==
    /\ pc = "qpois" /\ Len(ret) = 1
    /\ args[1] = [p |-> UpperP, lambda |-> FromInt(NormalAbove)]
    /\ qpoisSum(UpperP, FromInt(NormalAbove)).count = 880
    /\ FGe(qpoisSum(UpperP, FromInt(NormalAbove)).sum, UpperP)

(***************************************************************************)
(* Properties of calculateOmoriIntegral (under SpecOmori).                 *)
(***************************************************************************)
\* The form taken is the logarithmic one exactly when |p - 1| < 1e-10, and
\* the power-law form divides by a number that is not zero.
NoDivisionByZero ==
    /\ ret.logForm <=> FLt(FAbs(FSub(args.p, One)), FMul(Dec(1, 100000), Dec(1, 100000)))
    /\ ~ret.logForm => (ret.divisor # Zero /\ ret.divisor = FSub(One, args.p))

\* rangeEnd >= rangeStart >= 0 and c > 0.
OmoriRange ==
    /\ FGe(args.rangeEnd, args.rangeStart)
    /\ FGe(args.rangeStart, Zero)
    /\ FGt(args.c, Zero)

\* Neither power of the power-law form overflows.
PowersFinite ==
    /\ IsFinite(MathPow(FAdd(args.rangeEnd, args.c), FSub(One, args.p)))
    /\ IsFinite(MathPow(FAdd(args.rangeStart, args.c), FSub(One, args.p)))

\* C21: calculateOmoriIntegral never divides by zero (logarithmic form
\* exactly when |p - 1| < 1e-10, power-law form with 1 - p non-zero
\* otherwise), and for rangeEnd >= rangeStart >= 0 and c > 0 its result is
\* >= 0.
C21_NonNegative ==
    pc = "integrated"
    => (NoDivisionByZero /\ (OmoriRange => FGe(ret.value, Zero)))

\* What does hold: no division by zero, and a result >= 0 when neither power
\* overflows.
OmoriNonNegativeIfFinite ==
    pc = "integrated"
    => (NoDivisionByZero
        /\ ((OmoriRange /\ (ret.logForm \/ PowersFinite)) => FGe(ret.value, Zero)))

(***************************************************************************)
(* The preset registry (under Spec).                                       *)
(***************************************************************************)
\* C22: the forecasting functions share no mutable state: the objects of
\* MODEL_PRESETS are as they were constructed after any sequence of model
\* selections, custom-parameter edits and calculations, so a forecast for a
\* preset model is computed from the preset's parameters whatever ran
\* before.
C22_RegistryUnchanged ==
    /\ presets = MODEL_PRESETS
    /\ modelType # "custom"
       => \A i \in DOMAIN Forecasts : Forecasts[i].params = MODEL_PRESETS[modelType]

\* The custom parameters were the registry's Subduction Zone object when p
\* was edited: the edit went to an object of its own.
C22_Witness ==
    /\ modelType = "custom"
    /\ customAlias = ""
    /\ customParams = [MODEL_PRESETS.sz EXCEPT !.p = 0]
    /\ presets.sz = MODEL_PRESETS.sz

(***************************************************************************)
(* Properties of calculateInitialMagnitudeRanges (under SpecRanges).       *)
(***************************************************************************)
\* C23: for every main-shock magnitude calculateInitialMagnitudeRanges
\* returns thresholds with m1 > m2 > m3, each within [1, 9], which is what
\* validateInputs asks of the thresholds.
C23_RangesDescending ==
    pc = "ranged"
    => /\ ret.m1 > ret.m2 /\ ret.m2 > ret.m3
       /\ \A k \in {"m1", "m2", "m3"} : ret[k] \in 1..9

\* What does hold: the thresholds never increase and lie within [1, 9]; they
\* are strictly decreasing from magnitude 3.0 on.
RangesNotIncreasing ==
    pc = "ranged"
    => /\ ret.m1 >= ret.m2 /\ ret.m2 >= ret.m3
       /\ \A k \in {"m1", "m2", "m3"} : ret[k] \in 1..9
       /\ args >= 30 => (ret.m1 > ret.m2 /\ ret.m2 > ret.m3)

(***************************************************************************)
(* The custom model's parameters (under Spec).                             *)
(***************************************************************************)
\* C24: whenever the custom model is selected and no custom parameter has
\* been edited since it was selected (customParams is still an object of the
\* registry), the effective parameters handleCalculate uses are those of
\* MODEL_PRESETS.nz, whatever models were selected before.
C24_CustomIsNZ ==
    (modelType = "custom" /\ customAlias # "") => EffectiveParams = MODEL_PRESETS.nz

(***************************************************************************)
(* Properties of fetchQuakeData (under SpecFetch and SpecFetchLive).       *)
(***************************************************************************)
FetchSettled == pc = "settled" /\ ret.outcome # <<>>

FetchRejected == FetchSettled /\ ~ret.outcome[1].ok

\* The code each cause of failure is to be reported with.
ExpectedCode(cause) ==
    CASE cause = "invalid id" -> "INVALID_ID"
      [] cause \in {"status 404", "no features"} -> "NOT_FOUND"
      [] cause = "status not ok" -> "NETWORK_ERROR"
      [] cause \in {"unparsable body", "magnitude not a number", "time missing"} -> "PARSE_ERROR"
      [] cause = "abort" -> "TIMEOUT"
      [] OTHER -> "NETWORK_ERROR"

\* C25: every failure of fetchQuakeData is an ApiError carrying one of the
\* five codes, the code being the one that goes with what went wrong, and an
\* invalid id is rejected before any network request is issued (and before
\* the timer is set); a call that resolves had nothing go wrong.
C25_FailuresClassified ==
    FetchSettled
    => IF ret.outcome[1].ok
       THEN ret.cause = "" /\ ret.requests = 1
       ELSE /\ ret.outcome[1].type = "ApiError"
            /\ ret.outcome[1].code \in ApiErrorCodes
            /\ ret.outcome[1].code = ExpectedCode(ret.cause)
            /\ ret.cause # ""
            /\ (ret.cause = "invalid id") = (ret.requests = 0)
            /\ (ret.cause = "invalid id") = (ret.timer = "none")

\* A body that parses but has a first feature without properties made the
\* try block throw a TypeError, reported as NETWORK_ERROR.
C25_Witness ==
    /\ FetchRejected
    /\ ret.cause = "other error"
    /\ ret.outcome[1] = [ok |-> FALSE, type |-> "ApiError", code |-> "NETWORK_ERROR"]

\* C26: every call of fetchQuakeData with a valid id eventually settles.
C26_EventuallySettles == (pc = "awaiting fetch") ~> FetchSettled

\* What does hold: while the timer is set the call is waiting for fetch, so
\* the timer never fires after the call has settled, and a call that waits
\* for fetch settles or gets a response.
TimerOnlyWhileFetching == (ret.timer = "armed") = (pc = "awaiting fetch")

FetchWaitBounded == (pc = "awaiting fetch") ~> (pc \in {"settled", "awaiting json"})

(***************************************************************************)
(* Quake loads on the page (under Spec).                                   *)
(***************************************************************************)
\* C27: when a quake load fails, the step that handles the failure leaves
\* magnitude, quakeTime, startTime and magnitudeRanges alone, results and
\* loadedQuakeInfo are null after it, isLoading is false and QuakeInput holds
\* the error.
C27_FailedLoad ==
    [][handleLoadQuakeRejected
       => /\ UNCHANGED <<magnitude, quakeTime, startTime, magnitudeRanges>>
          /\ results' = <<>> /\ loadedQuakeInfo' = <<>>
          /\ ~isLoading' /\ error' # <<>>]_vars

\* What does hold: the failure changes nothing but isLoading and the error.
FailedLoadChangesNothingElse ==
    [][handleLoadQuakeRejected
       => /\ UNCHANGED <<magnitude, quakeTime, startTime, magnitudeRanges,
                         results, loadedQuakeInfo>>
          /\ ~isLoading' /\ error' # <<>>]_vars

\* C28: at most one quake load is in flight, and isLoading is true exactly
\* while one is; while isLoading is true no load can be started.
C28_OneLoadInFlight ==
    /\ Len(pending) <= 1
    /\ isLoading = (pending # <<>>)
    /\ isLoading => ~canLoad

\* A load is in flight and the quake id field holds an id: but for isLoading
\* the Load button would start a second load.
C28_Witness == isLoading /\ pending # <<>> /\ quakeId # "" /\ events < MaxEvents

\* The magnitude and quake time in state are those a successful load set.
LoadedDataInState ==
    /\ loadedQuakeInfo # <<>>
    /\ \E data \in GeoNetQuakes :
          /\ loadedQuakeInfo[1] = [magnitude |-> data.magnitude, time |-> data.quakeTime]
          /\ magnitude = MagnitudeToString(data.magnitude)
          /\ quakeTime = <<data.quakeTime>>

\* C29: whenever results are non-null and the magnitude and quake time in
\* state are those set by the last successful load, results.quakeId is the
\* id that load fetched; an id that was fetched with success is a valid
\* quake id, so results.quakeId is one.
C29_QuakeIdOfLoad ==
    (results # <<>> /\ LoadedDataInState) => validateQuakeId(results[1].quakeId)

(***************************************************************************)
(* The demo (under Spec).                                                  *)
(***************************************************************************)
\* The state handleTryDemo leaves, as far as it sets it.
DemoStarted ==
    /\ isDemoMode /\ results = <<>> /\ validationErrors = <<>>
    /\ quakeId = DEMO_EARTHQUAKE.quakeId
    /\ magnitude = MagnitudeToString(DEMO_EARTHQUAKE.magnitude)
    /\ quakeTime = <<DEMO_EARTHQUAKE.quakeTime>>
    /\ startTime = <<DEMO_EARTHQUAKE.quakeTime + 1>>
    /\ magnitudeRanges = calculateInitialMagnitudeRanges(DEMO_EARTHQUAKE.magnitude)
    /\ loadedQuakeInfo = <<[magnitude |-> DEMO_EARTHQUAKE.magnitude,
                            time |-> DEMO_EARTHQUAKE.quakeTime]>>

====
